---- MODULE Spec2Model ----
(***************************************************************************)
(* Password value object of golibry/go-common-domain (package auth):       *)
(* the policy validator, the pattern detectors, construction through       *)
(* bcrypt, verification and the read-only accessors.                       *)
(*                                                                         *)
(* A Go string is modelled as the sequence of its Unicode code points      *)
(* (what `for _, r := range s` and []rune(s) yield); its byte length is    *)
(* computed from the UTF-8 width of each code point.                       *)
(***************************************************************************)
EXTENDS Integers, Sequences, FiniteSets, TLC

(***************************************************************************)
(* Program constants (const block of the package).                         *)
(***************************************************************************)
MinPasswordLength == 8
MaxPasswordLength == 128
BcryptCost == 12

(***************************************************************************)
(* unicode package predicates, as Go's tables define them, for Latin-1     *)
(* and for the few code points beyond it that the inputs use:              *)
(*   U+03A9 GREEK CAPITAL OMEGA (Lu), U+212A KELVIN SIGN (Lu, lower 'k'),  *)
(*   U+01C5 (Lt, neither upper nor lower), U+0663 ARABIC-INDIC THREE (Nd), *)
(*   U+20AC EURO SIGN (Sc), U+1F600 (So), U+2028 LINE SEPARATOR (Zl),      *)
(*   U+FFFD REPLACEMENT CHARACTER (So).                                    *)
(* U+00A0, U+00AD and U+2028 are in no class and are not printable.        *)
(***************************************************************************)
IsUpper(r) ==
    \/ r \in 65..90
    \/ r \in 192..214
    \/ r \in 216..222
    \/ r \in {937, 8490}

IsLower(r) ==
    \/ r \in 97..122
    \/ r = 181
    \/ r \in 223..246
    \/ r \in 248..255

IsNumber(r) ==
    \/ r \in 48..57
    \/ r \in {178, 179, 185, 188, 189, 190}
    \/ r = 1635

IsPunct(r) ==
    \/ r \in {33, 34, 35, 37, 38, 39, 40, 41, 42, 44, 45, 46, 47}
    \/ r \in {58, 59, 63, 64, 91, 92, 93, 95, 123, 125}
    \/ r \in {161, 167, 171, 182, 183, 187, 191}

IsSymbol(r) ==
    \/ r \in {36, 43, 60, 61, 62, 94, 96, 124, 126}
    \/ r \in {162, 163, 164, 165, 166, 168, 169, 172, 174, 175, 176, 177, 180, 184}
    \/ r \in {215, 247}
    \/ r \in {8364, 128512, 65533}

\* Letters that are neither upper nor lower case (Lo, Lt).
IsOtherLetter(r) == r \in {170, 186, 453}

\* unicode.IsPrint: letters, marks, numbers, punctuation, symbols and the
\* ASCII space; controls, U+00A0, U+00AD and the separators are not printable.
IsPrint(r) ==
    \/ r = 32
    \/ IsUpper(r) \/ IsLower(r) \/ IsOtherLetter(r)
    \/ IsNumber(r) \/ IsPunct(r) \/ IsSymbol(r)

\* []rune(s), and the runes that range over s yields: the code points of s,
\* U+FFFD for each byte that is not part of a valid encoding.
RuneSlice(s) == [i \in 1..Len(s) |-> IF s[i] < 0 THEN 65533 ELSE s[i]]

\* unicode.ToLower
ToLowerRune(r) ==
    IF r \in 65..90 \/ r \in 192..214 \/ r \in 216..222 THEN r + 32
    ELSE IF r = 8490 THEN 107
    ELSE IF r = 937 THEN 969
    ELSE IF r = 453 THEN 454
    ELSE r

\* strings.ToLower: rune by rune; a byte that encodes nothing comes out as
\* U+FFFD.
ToLower(s) == [i \in 1..Len(s) |-> ToLowerRune(RuneSlice(s)[i])]

\* UTF-8 encoding of one code point.
EncodeRune(r) ==
    IF r < 128 THEN << r >>
    ELSE IF r < 2048 THEN << 192 + (r \div 64), 128 + (r % 64) >>
    ELSE IF r < 65536
         THEN << 224 + (r \div 4096), 128 + ((r \div 64) % 64), 128 + (r % 64) >>
    ELSE << 240 + (r \div 262144), 128 + ((r \div 4096) % 64),
            128 + ((r \div 64) % 64), 128 + (r % 64) >>

\* The encodings of s[lo..hi], in order.  The range is halved so that the
\* evaluation nests no deeper than the logarithm of the length.
RECURSIVE StringBytesRange(_, _, _)
StringBytesRange(s, lo, hi) ==
    IF lo > hi THEN << >>
    ELSE IF lo = hi THEN EncodeRune(s[lo])
    ELSE LET mid == (lo + hi) \div 2
         IN  StringBytesRange(s, lo, mid) \o StringBytesRange(s, mid + 1, hi)

\* []byte(s)
StringBytes(s) == StringBytesRange(s, 1, Len(s))

\* Mutant: the length counted in bytes, as len(s) would.
RuneCountInString_Bytes(s) == Len(StringBytes(s))

\* utf8.RuneCountInString
RuneCountInString(s) == Len(s)

(***************************************************************************)
(* Pattern detectors.                                                      *)
(***************************************************************************)
isDigit(r) == r >= 48 /\ r <= 57

isLetter(r) ==
    LET lr == ToLowerRune(r)
    IN  lr >= 97 /\ lr <= 122

\* Mutant: only ascending runs are looked for.
SequentialWindow_AscendingOnly(runes, i) ==
    LET a == runes[i]
        b == runes[i + 1]
        c == runes[i + 2]
        d == runes[i + 3]
        la == ToLowerRune(a)
        lb == ToLowerRune(b)
        lc == ToLowerRune(c)
        ld == ToLowerRune(d)
    IN  \/ /\ isDigit(a) /\ isDigit(b) /\ isDigit(c) /\ isDigit(d)
           /\ b = a + 1 /\ c = b + 1 /\ d = c + 1
        \/ /\ isLetter(la) /\ isLetter(lb) /\ isLetter(lc) /\ isLetter(ld)
           /\ lb = la + 1 /\ lc = lb + 1 /\ ld = lc + 1

\* One iteration of the sliding window loop, at 1-based index i.
SequentialWindow(runes, i) ==
    LET a == runes[i]
        b == runes[i + 1]
        c == runes[i + 2]
        d == runes[i + 3]
        la == ToLowerRune(a)
        lb == ToLowerRune(b)
        lc == ToLowerRune(c)
        ld == ToLowerRune(d)
    IN  \/ /\ isDigit(a) /\ isDigit(b) /\ isDigit(c) /\ isDigit(d)
           /\ \/ (b = a + 1 /\ c = b + 1 /\ d = c + 1)
              \/ (b = a - 1 /\ c = b - 1 /\ d = c - 1)
        \/ /\ isLetter(la) /\ isLetter(lb) /\ isLetter(lc) /\ isLetter(ld)
           /\ \/ (lb = la + 1 /\ lc = lb + 1 /\ ld = lc + 1)
              \/ (lb = la - 1 /\ lc = lb - 1 /\ ld = lc - 1)

\* The loop runs i over the windows, left to right, and returns true at the
\* first one that matches.
isSequentialPattern(password) ==
    LET runes == RuneSlice(password)
    IN  IF Len(runes) < 4 THEN FALSE
        ELSE \E i \in 1..(Len(runes) - 3) : SequentialWindow(runes, i)

\* One iteration of the counting loop, at 1-based index i: st.count is the
\* counter, st.found is set when the loop has returned true.
RepeatingStep(runes, i, st) ==
    IF st.found THEN st
    ELSE IF runes[i] = runes[i - 1]
         THEN [count |-> st.count + 1, found |-> st.count + 1 >= 4]
         ELSE [count |-> 1, found |-> FALSE]

\* The iterations lo..hi in order, started in st.  The range is halved so
\* that the evaluation nests no deeper than the logarithm of the length.
RECURSIVE RepeatingLoop(_, _, _, _)
RepeatingLoop(runes, lo, hi, st) ==
    IF lo > hi THEN st
    ELSE IF lo = hi THEN RepeatingStep(runes, lo, st)
    ELSE LET mid == (lo + hi) \div 2
             left == RepeatingLoop(runes, lo, mid, st)
         IN  IF left.found THEN left
             ELSE RepeatingLoop(runes, mid + 1, hi, left)

\* Mutant: the loop runs over the bytes of the string.
isRepeatingPattern_Bytes(password) ==
    LET bytes == StringBytes(password)
    IN  IF Len(bytes) < 4 THEN FALSE
        ELSE RepeatingLoop(bytes, 2, Len(bytes),
                           [count |-> 1, found |-> FALSE]).found

isRepeatingPattern(password) ==
    LET runes == RuneSlice(password)
    IN  IF Len(runes) < 4 THEN FALSE
        ELSE RepeatingLoop(runes, 2, Len(runes),
                           [count |-> 1, found |-> FALSE]).found

(***************************************************************************)
(* Errors.  An error value is the chain of domain.Error nodes reached by   *)
(* Unwrap, outermost first; each node carries the identity of the          *)
(* allocation (pointer) and its message.  nil is the empty chain.          *)
(***************************************************************************)
NilError == << >>

ErrPasswordTooShort == << [ptr |-> "auth.ErrPasswordTooShort",
                           msg |-> "password must be at least 8 characters long"] >>
ErrPasswordTooLong == << [ptr |-> "auth.ErrPasswordTooLong",
                          msg |-> "password cannot exceed 128 characters"] >>
ErrPasswordTooWeak == << [ptr |-> "auth.ErrPasswordTooWeak",
                          msg |-> "password must contain at least one uppercase letter, one lowercase letter, one number, and one special character"] >>
ErrPasswordCommon == << [ptr |-> "auth.ErrPasswordCommon",
                         msg |-> "password is too common or weak. Try to not use common names or repeating characters like \"123456\" or \"123456789\". "] >>
ErrInvalidPasswordChars == << [ptr |-> "auth.ErrInvalidPasswordChars",
                               msg |-> "password contains invalid characters"] >>
ErrPasswordVerifyFailed == << [ptr |-> "auth.ErrPasswordVerifyFailed",
                               msg |-> "failed to verify password"] >>

\* domain.NewErrorWithWrap: a new node, allocated at ptr, in front of the
\* wrapped error's chain.
NewErrorWithWrap(ptr, err, msg) == << [ptr |-> ptr, msg |-> msg] >> \o err

\* Mutant: Unwrap hands out nothing, as an error type without the method.
Unwrap_Dropped(err) == NilError

\* (*Error).Unwrap
Unwrap(err) == IF err = NilError THEN NilError ELSE Tail(err)

\* (*Error).Error: the message, followed by ": " and the wrapped error's
\* Error() when there is one.
RECURSIVE Error(_)
Error(err) ==
    IF Tail(err) = NilError THEN err[1].msg
    ELSE err[1].msg \o ": " \o Error(Tail(err))

\* errors.Is: walks the chain with Unwrap and finds target if some error of
\* the chain is identical to it (pointer comparison; domain.Error defines no
\* Is method).
RECURSIVE ErrorsIs(_, _)
ErrorsIs(err, target) ==
    /\ target # NilError
    /\ err # NilError
    /\ \/ err[1].ptr = target[1].ptr
       \/ ErrorsIs(Unwrap(err), target)

(***************************************************************************)
(* Policy validator.                                                       *)
(***************************************************************************)
\* Mutant: a list with an entry that has special characters.
commonPasswords_WithSpecial == {
    <<112, 97, 115, 115, 119, 111, 114, 100>>,  \* password
    <<97, 98, 99, 49, 50, 51, 33, 64>>  \* abc123!@
}

commonPasswords == {
    <<112, 97, 115, 115, 119, 111, 114, 100>>,  \* password
    <<49, 50, 51, 52, 53, 54>>,  \* 123456
    <<49, 50, 51, 52, 53, 54, 55, 56, 57>>,  \* 123456789
    <<49, 50, 51, 52, 53, 54, 55, 56>>,  \* 12345678
    <<49, 50, 51, 52, 53>>,  \* 12345
    <<49, 50, 51, 52, 53, 54, 55>>,  \* 1234567
    <<112, 97, 115, 115, 119, 111, 114, 100, 49, 50, 51>>,  \* password123
    <<97, 100, 109, 105, 110>>,  \* admin
    <<113, 119, 101, 114, 116, 121>>,  \* qwerty
    <<97, 98, 99, 49, 50, 51>>,  \* abc123
    <<108, 101, 116, 109, 101, 105, 110>>,  \* letmein
    <<109, 111, 110, 107, 101, 121>>,  \* monkey
    <<49, 50, 51, 52, 53, 54, 55, 56, 57, 48>>,  \* 1234567890
    <<100, 114, 97, 103, 111, 110>>,  \* dragon
    <<49, 49, 49, 49, 49, 49>>,  \* 111111
    <<98, 97, 115, 101, 98, 97, 108, 108>>,  \* baseball
    <<105, 108, 111, 118, 101, 121, 111, 117>>,  \* iloveyou
    <<116, 114, 117, 115, 116, 110, 111, 49>>,  \* trustno1
    <<115, 117, 110, 115, 104, 105, 110, 101>>,  \* sunshine
    <<109, 97, 115, 116, 101, 114>>,  \* master
    <<119, 101, 108, 99, 111, 109, 101>>,  \* welcome
    <<115, 104, 97, 100, 111, 119>>,  \* shadow
    <<97, 115, 104, 108, 101, 121>>,  \* ashley
    <<102, 111, 111, 116, 98, 97, 108, 108>>,  \* football
    <<106, 101, 115, 117, 115>>,  \* jesus
    <<109, 105, 99, 104, 97, 101, 108>>,  \* michael
    <<110, 105, 110, 106, 97>>,  \* ninja
    <<109, 117, 115, 116, 97, 110, 103>>,  \* mustang
    <<112, 97, 115, 115, 119, 111, 114, 100, 49>>  \* password1
}

\* The loop of validatePasswordComplexity: a flag is set if some rune
\* reaches its case of the switch, that is, matches it and none before it.
validatePasswordComplexity(password) ==
    LET runes == 1..Len(password)
        r == RuneSlice(password)
        hasUpper == \E i \in runes : IsUpper(r[i])
        hasLower == \E i \in runes :
                        /\ ~IsUpper(r[i])
                        /\ IsLower(r[i])
        hasNumber == \E i \in runes :
                        /\ ~IsUpper(r[i])
                        /\ ~IsLower(r[i])
                        /\ IsNumber(r[i])
        hasSpecial == \E i \in runes :
                        /\ ~IsUpper(r[i])
                        /\ ~IsLower(r[i])
                        /\ ~IsNumber(r[i])
                        /\ (IsPunct(r[i]) \/ IsSymbol(r[i]))
    IN  IF ~hasUpper \/ ~hasLower \/ ~hasNumber \/ ~hasSpecial
        THEN ErrPasswordTooWeak
        ELSE NilError

\* Mutant: only the sequential detector is asked.
validatePasswordStrengthRun_NoRepeating(password) ==
    LET lowerPassword == ToLower(password)
    IN  IF lowerPassword \in commonPasswords
        THEN [err |-> ErrPasswordCommon, rules |-> <<"denylist">>]
        ELSE IF isSequentialPattern(password)
             THEN [err |-> ErrPasswordCommon, rules |-> <<"denylist", "patterns">>]
        ELSE [err |-> NilError, rules |-> <<"denylist", "patterns">>]

\* validatePasswordStrength returns the error together with the checks it
\* made: the deny-list loop, then the two pattern detectors.
validatePasswordStrengthRun(password) ==
    LET lowerPassword == ToLower(password)
    IN  IF lowerPassword \in commonPasswords
        THEN [err |-> ErrPasswordCommon, rules |-> <<"denylist">>]
        ELSE IF isSequentialPattern(password) \/ isRepeatingPattern(password)
             THEN [err |-> ErrPasswordCommon, rules |-> <<"denylist", "patterns">>]
        ELSE [err |-> NilError, rules |-> <<"denylist", "patterns">>]

validatePasswordStrength(password) == validatePasswordStrengthRun(password).err

\* The printable-character loop: it returns at the first rune that is not
\* printable.
HasNonPrintableRune(password) ==
    \E i \in 1..Len(password) : ~IsPrint(RuneSlice(password)[i])

\* Mutant: the strength check made before the complexity check.
ValidatePasswordRun_StrengthFirst(password) ==
    IF RuneCountInString(password) < MinPasswordLength
    THEN [err |-> ErrPasswordTooShort, rules |-> <<"floor">>]
    ELSE IF RuneCountInString(password) > MaxPasswordLength
    THEN [err |-> ErrPasswordTooLong, rules |-> <<"floor", "ceiling">>]
    ELSE IF HasNonPrintableRune(password)
    THEN [err |-> ErrInvalidPasswordChars,
          rules |-> <<"floor", "ceiling", "printable">>]
    ELSE LET strength == validatePasswordStrengthRun(password)
         IN  IF strength.err # NilError
             THEN [err |-> strength.err,
                   rules |-> <<"floor", "ceiling", "printable">> \o strength.rules]
             ELSE [err |-> validatePasswordComplexity(password),
                   rules |-> <<"floor", "ceiling", "printable">> \o strength.rules
                             \o <<"complexity">>]

\* Mutant: the ceiling compared with >=.
ValidatePasswordRun_CeilingOffByOne(password) ==
    IF RuneCountInString(password) < MinPasswordLength
    THEN [err |-> ErrPasswordTooShort, rules |-> <<"floor">>]
    ELSE IF RuneCountInString(password) >= MaxPasswordLength
    THEN [err |-> ErrPasswordTooLong, rules |-> <<"floor", "ceiling">>]
    ELSE IF HasNonPrintableRune(password)
    THEN [err |-> ErrInvalidPasswordChars,
          rules |-> <<"floor", "ceiling", "printable">>]
    ELSE IF validatePasswordComplexity(password) # NilError
    THEN [err |-> validatePasswordComplexity(password),
          rules |-> <<"floor", "ceiling", "printable", "complexity">>]
    ELSE LET strength == validatePasswordStrengthRun(password)
         IN  [err |-> strength.err,
              rules |-> <<"floor", "ceiling", "printable", "complexity">>
                        \o strength.rules]

\* Mutant: the printable-character loop run after the complexity check.
ValidatePasswordRun_PrintableLate(password) ==
    IF RuneCountInString(password) < MinPasswordLength
    THEN [err |-> ErrPasswordTooShort, rules |-> <<"floor">>]
    ELSE IF RuneCountInString(password) > MaxPasswordLength
    THEN [err |-> ErrPasswordTooLong, rules |-> <<"floor", "ceiling">>]
    ELSE IF validatePasswordComplexity(password) # NilError
    THEN [err |-> validatePasswordComplexity(password),
          rules |-> <<"floor", "ceiling", "complexity">>]
    ELSE IF HasNonPrintableRune(password)
    THEN [err |-> ErrInvalidPasswordChars,
          rules |-> <<"floor", "ceiling", "complexity", "printable">>]
    ELSE LET strength == validatePasswordStrengthRun(password)
         IN  [err |-> strength.err,
              rules |-> <<"floor", "ceiling", "complexity", "printable">>
                        \o strength.rules]

\* Mutant: the error for a plaintext that is too short is made for the call
\* and tells whether the plaintext was empty.
ValidatePasswordRun_MessageFromPlaintext(password) ==
    IF RuneCountInString(password) < MinPasswordLength
    THEN [err |-> << [ptr |-> "heap#1",
                      msg |-> IF password = << >> THEN "password is empty"
                              ELSE "password must be at least 8 characters long"] >>,
          rules |-> <<"floor">>]
    ELSE IF RuneCountInString(password) > MaxPasswordLength
    THEN [err |-> ErrPasswordTooLong, rules |-> <<"floor", "ceiling">>]
    ELSE IF HasNonPrintableRune(password)
    THEN [err |-> ErrInvalidPasswordChars,
          rules |-> <<"floor", "ceiling", "printable">>]
    ELSE IF validatePasswordComplexity(password) # NilError
    THEN [err |-> validatePasswordComplexity(password),
          rules |-> <<"floor", "ceiling", "printable", "complexity">>]
    ELSE LET strength == validatePasswordStrengthRun(password)
         IN  [err |-> strength.err,
              rules |-> <<"floor", "ceiling", "printable", "complexity">>
                        \o strength.rules]

\* ValidatePassword returns the error together with the rules it evaluated,
\* in the order it evaluated them.
ValidatePasswordRun(password) ==
    IF RuneCountInString(password) < MinPasswordLength
    THEN [err |-> ErrPasswordTooShort, rules |-> <<"floor">>]
    ELSE IF RuneCountInString(password) > MaxPasswordLength
    THEN [err |-> ErrPasswordTooLong, rules |-> <<"floor", "ceiling">>]
    ELSE IF HasNonPrintableRune(password)
    THEN [err |-> ErrInvalidPasswordChars,
          rules |-> <<"floor", "ceiling", "printable">>]
    ELSE IF validatePasswordComplexity(password) # NilError
    THEN [err |-> validatePasswordComplexity(password),
          rules |-> <<"floor", "ceiling", "printable", "complexity">>]
    ELSE LET strength == validatePasswordStrengthRun(password)
         IN  [err |-> strength.err,
              rules |-> <<"floor", "ceiling", "printable", "complexity">>
                        \o strength.rules]

ValidatePassword(password) == ValidatePasswordRun(password).err


(***************************************************************************)
(* The bcrypt primitive (golang.org/x/crypto/bcrypt), by what the two      *)
(* calls of the package observe of it.  The Blowfish key schedule reads    *)
(* the password followed by a NUL byte, cyclically, into 18 words of 4     *)
(* bytes; the digest is a collision-free function of that key, of the      *)
(* salt and of the cost, and is written here as the symbolic string that   *)
(* names the three.  Symbols of the radix-64 part of a hash are the        *)
(* numbers from HashSymbolBase on, outside the Unicode range.              *)
(***************************************************************************)
BcryptMaxPasswordBytes == 72
BlowfishKeyBytes == 18 * 4
HashSymbolBase == 1114112

bcryptErrMismatchedHashAndPassword ==
    << [ptr |-> "bcrypt.ErrMismatchedHashAndPassword",
        msg |-> "crypto/bcrypt: hashedPassword is not the hash of the given password"] >>
bcryptErrPasswordTooLong ==
    << [ptr |-> "bcrypt.ErrPasswordTooLong",
        msg |-> "bcrypt: password length exceeds 72 bytes"] >>
bcryptErrHashTooShort ==
    << [ptr |-> "bcrypt.ErrHashTooShort",
        msg |-> "crypto/bcrypt: hashedSecret too short to be a bcrypted password"] >>
bcryptInvalidHashPrefixError ==
    << [ptr |-> "bcrypt.InvalidHashPrefixError",
        msg |-> "crypto/bcrypt: bcrypt hashes must start with '$'"] >>
bcryptHashVersionTooNewError ==
    << [ptr |-> "bcrypt.HashVersionTooNewError",
        msg |-> "crypto/bcrypt: bcrypt algorithm version requested is newer than current version '2'"] >>
bcryptInvalidCostError ==
    << [ptr |-> "bcrypt.InvalidCostError",
        msg |-> "crypto/bcrypt: cost is outside allowed inclusive range 4..31"] >>
strconvErrSyntax ==
    << [ptr |-> "strconv.NumError", msg |-> "strconv.Atoi: parsing: invalid syntax"],
       [ptr |-> "strconv.ErrSyntax", msg |-> "invalid syntax"] >>
base64CorruptInputError ==
    << [ptr |-> "base64.CorruptInputError", msg |-> "illegal base64 data at input byte 0"] >>

\* The key the cipher is set up with: password ++ NUL, read cyclically.
BlowfishKey(password) ==
    LET ckey == password \o << 0 >>
    IN  [i \in 1..BlowfishKeyBytes |-> ckey[((i - 1) % Len(ckey)) + 1]]

HashSymbols(values) == [i \in 1..Len(values) |-> HashSymbolBase + values[i]]

\* bcrypt(password, cost, salt): the encoded digest.
BcryptDigest(password, cost, salt) ==
    HashSymbols(<< cost, salt >> \o BlowfishKey(password))

\* "$2a$" cost "$" salt digest
HashPrefix == << 36, 50, 97, 36 >>

FormatHash(cost, salt, digest) ==
    HashPrefix \o << 48 + (cost \div 10), 48 + (cost % 10), 36 >>
               \o HashSymbols(<< salt >>) \o digest

HashSize == Len(FormatHash(0, 0, BcryptDigest(<< >>, 0, 0)))

\* minHashSize: a hash without the minor version character
MinHashSize == HashSize - 1

\* strconv.Atoi of the two characters of the cost: two digits, or a sign
\* and a digit.  ok is FALSE for anything else.
AtoiCost(c1, c2) ==
    IF c1 \in 48..57 /\ c2 \in 48..57
    THEN [ok |-> TRUE, cost |-> (c1 - 48) * 10 + (c2 - 48)]
    ELSE IF c1 = 43 /\ c2 \in 48..57 THEN [ok |-> TRUE, cost |-> c2 - 48]
    ELSE IF c1 = 45 /\ c2 \in 48..57 THEN [ok |-> TRUE, cost |-> 0 - (c2 - 48)]
    ELSE [ok |-> FALSE, cost |-> 0]

\* newFromHash: decodeVersion, decodeCost, then the salt and the digest.
\* salt is the encoded salt as it stands in the hash.
ParseHash(hashedSecret) ==
    LET bad(e) == [err |-> e, cost |-> 0, salt |-> 0, hash |-> << >>]
    IN  IF Len(hashedSecret) < MinHashSize THEN bad(bcryptErrHashTooShort)
        ELSE IF hashedSecret[1] # 36 THEN bad(bcryptInvalidHashPrefixError)
        ELSE IF hashedSecret[2] > 50 THEN bad(bcryptHashVersionTooNewError)
        ELSE LET n == IF hashedSecret[3] # 36 THEN 4 ELSE 3
                 c == AtoiCost(hashedSecret[n + 1], hashedSecret[n + 2])
             IN  IF ~c.ok THEN bad(strconvErrSyntax)
                 ELSE IF c.cost < 4 \/ c.cost > 31 THEN bad(bcryptInvalidCostError)
                 ELSE [err |-> NilError,
                       cost |-> c.cost,
                       salt |-> hashedSecret[n + 4],
                       hash |-> SubSeq(hashedSecret, n + 5, Len(hashedSecret))]

\* Mutant: a password of any length is hashed, only its first 72 bytes used.
GenerateFromPassword_Truncating(password, cost, salt) ==
    LET used == SubSeq(password, 1, IF Len(password) > BcryptMaxPasswordBytes
                                    THEN BcryptMaxPasswordBytes ELSE Len(password))
    IN  [hash |-> FormatHash(cost, salt, BcryptDigest(used, cost, salt)),
         err |-> NilError]

\* bcrypt.GenerateFromPassword with the salt the random source delivers.
GenerateFromPassword(password, cost, salt) ==
    IF Len(password) > BcryptMaxPasswordBytes
    THEN [hash |-> << >>, err |-> bcryptErrPasswordTooLong]
    ELSE [hash |-> FormatHash(cost, salt, BcryptDigest(password, cost, salt)),
          err |-> NilError]

\* newFromHash, then bcrypt() with the cost and the salt of the hash, which
\* decodes the salt, then the comparison of the two digests.
CompareHashAndPassword(hashedPassword, password) ==
    LET p == ParseHash(hashedPassword)
    IN  IF p.err # NilError THEN p.err
        ELSE IF p.salt < HashSymbolBase THEN base64CorruptInputError
        ELSE IF p.hash = BcryptDigest(password, p.cost, p.salt - HashSymbolBase)
             THEN NilError
        ELSE bcryptErrMismatchedHashAndPassword

(***************************************************************************)
(* Password value object.                                                  *)
(***************************************************************************)
\* Password{}
EmptyPassword == [hashedValue |-> << >>]

\* Identity of the n-th domain.Error allocated while others are still held.
HeapPtr == << "heap#1", "heap#2", "heap#3", "heap#4", "heap#5", "heap#6" >>

\* A pointer no node of err has.
FreshPtr(err) == HeapPtr[1 + Cardinality({i \in 1..Len(err) : err[i].ptr \in
                                           {HeapPtr[k] : k \in 1..Len(HeapPtr)}})]

\* Mutant: the plaintext is hashed first and validated afterwards.
NewPassword_HashFirst(plaintext, salt) ==
    LET gen == GenerateFromPassword(StringBytes(plaintext), BcryptCost, salt)
        err == ValidatePassword(plaintext)
    IN  IF gen.err # NilError
        THEN [pw |-> EmptyPassword,
              err |-> NewErrorWithWrap(FreshPtr(gen.err), gen.err,
                                       "failed to hash password"),
              calls |-> <<"bcrypt.GenerateFromPassword">>]
        ELSE IF err # NilError
        THEN [pw |-> EmptyPassword, err |-> err,
              calls |-> <<"bcrypt.GenerateFromPassword", "ValidatePassword">>]
        ELSE [pw |-> [hashedValue |-> gen.hash], err |-> NilError,
              calls |-> <<"bcrypt.GenerateFromPassword", "ValidatePassword">>]

\* Mutant: a failure of the primitive is reported with the policy's own
\* "too long" error.
NewPassword_PolicyErrorOnHashFailure(plaintext, salt) ==
    LET err == ValidatePassword(plaintext)
    IN  IF err # NilError
        THEN [pw |-> EmptyPassword, err |-> err, calls |-> <<"ValidatePassword">>]
        ELSE LET gen == GenerateFromPassword(StringBytes(plaintext), BcryptCost, salt)
             IN  IF gen.err # NilError
                 THEN [pw |-> EmptyPassword,
                       err |-> ErrPasswordTooLong,
                       calls |-> <<"ValidatePassword", "bcrypt.GenerateFromPassword">>]
                 ELSE [pw |-> [hashedValue |-> gen.hash],
                       err |-> NilError,
                       calls |-> <<"ValidatePassword", "bcrypt.GenerateFromPassword">>]

\* Mutant: the hash is made with one salt for all calls.
NewPassword_ConstantSalt(plaintext, salt) ==
    LET err == ValidatePassword(plaintext)
    IN  IF err # NilError
        THEN [pw |-> EmptyPassword, err |-> err, calls |-> <<"ValidatePassword">>]
        ELSE LET gen == GenerateFromPassword(StringBytes(plaintext), BcryptCost, 0)
             IN  IF gen.err # NilError
                 THEN [pw |-> EmptyPassword,
                       err |-> NewErrorWithWrap(FreshPtr(gen.err), gen.err,
                                                "failed to hash password"),
                       calls |-> <<"ValidatePassword", "bcrypt.GenerateFromPassword">>]
                 ELSE [pw |-> [hashedValue |-> gen.hash],
                       err |-> NilError,
                       calls |-> <<"ValidatePassword", "bcrypt.GenerateFromPassword">>]

\* Mutant: the Password keeps the plaintext behind the hash.
NewPassword_PlaintextKept(plaintext, salt) ==
    LET err == ValidatePassword(plaintext)
    IN  IF err # NilError
        THEN [pw |-> EmptyPassword, err |-> err, calls |-> <<"ValidatePassword">>]
        ELSE LET gen == GenerateFromPassword(StringBytes(plaintext), BcryptCost, salt)
             IN  IF gen.err # NilError
                 THEN [pw |-> EmptyPassword,
                       err |-> NewErrorWithWrap(FreshPtr(gen.err), gen.err,
                                                "failed to hash password"),
                       calls |-> <<"ValidatePassword", "bcrypt.GenerateFromPassword">>]
                 ELSE [pw |-> [hashedValue |-> gen.hash \o plaintext],
                       err |-> NilError,
                       calls |-> <<"ValidatePassword", "bcrypt.GenerateFromPassword">>]

\* NewPassword with the salt bcrypt draws if it gets to draw one.  calls
\* lists the callees in the order they are invoked.
NewPassword(plaintext, salt) ==
    LET err == ValidatePassword(plaintext)
    IN  IF err # NilError
        THEN [pw |-> EmptyPassword, err |-> err, calls |-> <<"ValidatePassword">>]
        ELSE LET gen == GenerateFromPassword(StringBytes(plaintext), BcryptCost, salt)
             IN  IF gen.err # NilError
                 THEN [pw |-> EmptyPassword,
                       err |-> NewErrorWithWrap(FreshPtr(gen.err), gen.err,
                                                "failed to hash password"),
                       calls |-> <<"ValidatePassword", "bcrypt.GenerateFromPassword">>]
                 ELSE [pw |-> [hashedValue |-> gen.hash],
                       err |-> NilError,
                       calls |-> <<"ValidatePassword", "bcrypt.GenerateFromPassword">>]

\* Mutant: the two arguments of CompareHashAndPassword exchanged.
Verify_ArgumentsSwapped(p, plaintext) ==
    LET err == CompareHashAndPassword(StringBytes(plaintext), p.hashedValue)
    IN  IF err = NilError THEN NilError
        ELSE IF ErrorsIs(err, bcryptErrMismatchedHashAndPassword)
             THEN ErrPasswordVerifyFailed
        ELSE NewErrorWithWrap(FreshPtr(err), err, "failed to verify password")

\* Mutant: a mismatch is wrapped like any other error of the primitive.
Verify_MismatchWrapped(p, plaintext) ==
    LET err == CompareHashAndPassword(p.hashedValue, StringBytes(plaintext))
    IN  IF err = NilError THEN NilError
        ELSE NewErrorWithWrap(FreshPtr(err), err, "failed to verify password")

\* Mutant: every error of the primitive is reported as a failed verification.
Verify_AnyErrorIsMismatch(p, plaintext) ==
    LET err == CompareHashAndPassword(p.hashedValue, StringBytes(plaintext))
    IN  IF err = NilError THEN NilError ELSE ErrPasswordVerifyFailed

Verify(p, plaintext) ==
    LET err == CompareHashAndPassword(p.hashedValue, StringBytes(plaintext))
    IN  IF err = NilError THEN NilError
        ELSE IF ErrorsIs(err, bcryptErrMismatchedHashAndPassword)
             THEN ErrPasswordVerifyFailed
        ELSE NewErrorWithWrap(FreshPtr(err), err, "failed to verify password")

HashedValue(p) == p.hashedValue

\* Mutant: two Passwords are equal if their hashes are equally long.
Equals_SameLength(p, other) == Len(p.hashedValue) = Len(other.hashedValue)

Equals(p, other) == p.hashedValue = other.hashedValue

\* Mutant: the hash is shown.
String_ShowsHash(p) == p.hashedValue

\* Mutant: a Password without a hash is shown as the empty string.
String_EmptyWhenUnset(p) ==
    IF p.hashedValue = << >> THEN << >>
    ELSE << 91, 80, 82, 79, 84, 69, 67, 84, 69, 68, 93 >>

\* "[PROTECTED]"
String(p) == << 91, 80, 82, 79, 84, 69, 67, 84, 69, 68, 93 >>

(***************************************************************************)
(* encoding/json, as far as passwordJSON uses it.  A JSON text is written  *)
(* as what it says: its kind ("syntax error" for a text that is not JSON)  *)
(* and, for an object, its members in the order they stand in the text;    *)
(* a member has a name, the type of its value and, for a string, the       *)
(* string.  In a Go string a byte that belongs to no well-formed UTF-8     *)
(* sequence is written as the negative of its value.                       *)
(***************************************************************************)
\* "hashedValue", the name the tag of passwordJSON.HashedValue gives
hashedValueKey == << 104, 97, 115, 104, 101, 100, 86, 97, 108, 117, 101 >>

\* var temp passwordJSON
EmptyPasswordJSON == [HashedValue |-> << >>]

jsonSyntaxError ==
    << [ptr |-> "json.SyntaxError", msg |-> "invalid character looking for beginning of value"] >>
jsonUnmarshalTypeError ==
    << [ptr |-> "json.UnmarshalTypeError",
        msg |-> "json: cannot unmarshal value into Go value of type string"] >>

JSONObject(members) == [kind |-> "object", members |-> members]
JSONString(name, value) == [name |-> name, type |-> "string", value |-> value]
JSONOther(name, type) == [name |-> name, type |-> type, value |-> << >>]
JSONText(kind) == [kind |-> kind, members |-> << >>]

\* Both the encoder and the decoder put U+FFFD in place of every byte that
\* is not part of well-formed UTF-8.
CoerceUTF8(s) == [i \in 1..Len(s) |-> IF s[i] < 0 THEN 65533 ELSE s[i]]

\* A key of the text names the field if it is its name up to case.
EqualFold(s, t) == ToLower(CoerceUTF8(s)) = ToLower(CoerceUTF8(t))

\* json.Marshal(v) for v of type passwordJSON
jsonMarshal(v) ==
    [json |-> JSONObject(<< JSONString(hashedValueKey, CoerceUTF8(v.HashedValue)) >>),
     err |-> NilError]

\* The decoder's walk over the members of an object from member i on: state
\* is the struct filled so far and the first error saved.
RECURSIVE jsonObjectInto(_, _, _)
jsonObjectInto(members, i, state) ==
    IF i > Len(members) THEN state
    ELSE LET m == members[i]
             next ==
                 IF ~EqualFold(m.name, hashedValueKey) THEN state
                 ELSE IF m.type = "string"
                      THEN [state EXCEPT !.v = [HashedValue |-> CoerceUTF8(m.value)]]
                 ELSE IF m.type = "null" THEN state
                 ELSE IF state.err = NilError
                      THEN [state EXCEPT !.err = jsonUnmarshalTypeError]
                 ELSE state
         IN  jsonObjectInto(members, i + 1, next)

\* json.Unmarshal(data, &temp)
jsonUnmarshal(data, temp) ==
    IF data.kind = "syntax error" THEN [v |-> temp, err |-> jsonSyntaxError]
    ELSE IF data.kind = "null" THEN [v |-> temp, err |-> NilError]
    ELSE IF data.kind = "object"
         THEN jsonObjectInto(data.members, 1, [v |-> temp, err |-> NilError])
    ELSE [v |-> temp, err |-> jsonUnmarshalTypeError]

(***************************************************************************)
(* Password: persistence.                                                  *)
(***************************************************************************)
NewError(ptr, msg) == << [ptr |-> ptr, msg |-> msg] >>

\* Mutant: the string handed in is hashed like a plaintext.
ReconstitutePassword_Hashed(hashedValue) ==
    [hashedValue |-> GenerateFromPassword(hashedValue, BcryptCost, 0).hash]

ReconstitutePassword(hashedValue) == [hashedValue |-> hashedValue]

\* Mutant: an empty hashedValue is not rejected.
NewPasswordFromJSON_EmptyAccepted(data) ==
    LET u == jsonUnmarshal(data, EmptyPasswordJSON)
    IN  IF u.err # NilError
        THEN [pw |-> EmptyPassword,
              err |-> NewErrorWithWrap(FreshPtr(u.err), u.err,
                                       "failed to build password from json")]
        ELSE [pw |-> ReconstitutePassword(u.v.HashedValue), err |-> NilError]

NewPasswordFromJSON(data) ==
    LET u == jsonUnmarshal(data, EmptyPasswordJSON)
    IN  IF u.err # NilError
        THEN [pw |-> EmptyPassword,
              err |-> NewErrorWithWrap(FreshPtr(u.err), u.err,
                                       "failed to build password from json")]
        ELSE IF u.v.HashedValue = << >>
        THEN [pw |-> EmptyPassword,
              err |-> NewError(FreshPtr(NilError),
                  "failed to build password from json: missing or empty hashedValue")]
        ELSE [pw |-> ReconstitutePassword(u.v.HashedValue), err |-> NilError]

\* Mutant: the serialized form carries the redacted string.
MarshalJSON_Redacted(p) == jsonMarshal([HashedValue |-> String(p)])

\* json.Marshal(passwordJSON{HashedValue: p.hashedValue})
MarshalJSON(p) == jsonMarshal([HashedValue |-> p.hashedValue])

\* Mutant: the method has a value receiver, so the caller's Password stays
\* as it was.
UnmarshalJSON_ValueReceiver(p, data) ==
    LET u == jsonUnmarshal(data, EmptyPasswordJSON)
    IN  IF u.err # NilError
        THEN [pw |-> p,
              err |-> NewErrorWithWrap(FreshPtr(u.err), u.err,
                                       "failed to unmarshal password from json")]
        ELSE IF u.v.HashedValue = << >>
        THEN [pw |-> p,
              err |-> NewError(FreshPtr(NilError),
                  "failed to unmarshal password from json: missing or empty hashedValue")]
        ELSE [pw |-> p, err |-> NilError]

\* Mutant: the field is assigned before it is tested for emptiness.
UnmarshalJSON_AssignedBeforeTest(p, data) ==
    LET u == jsonUnmarshal(data, EmptyPasswordJSON)
    IN  IF u.err # NilError
        THEN [pw |-> p,
              err |-> NewErrorWithWrap(FreshPtr(u.err), u.err,
                                       "failed to unmarshal password from json")]
        ELSE IF u.v.HashedValue = << >>
        THEN [pw |-> [p EXCEPT !.hashedValue = u.v.HashedValue],
              err |-> NewError(FreshPtr(NilError),
                  "failed to unmarshal password from json: missing or empty hashedValue")]
        ELSE [pw |-> [p EXCEPT !.hashedValue = u.v.HashedValue], err |-> NilError]

\* Mutant: the field is not tested for emptiness.
UnmarshalJSON_EmptyAccepted(p, data) ==
    LET u == jsonUnmarshal(data, EmptyPasswordJSON)
    IN  IF u.err # NilError
        THEN [pw |-> p,
              err |-> NewErrorWithWrap(FreshPtr(u.err), u.err,
                                       "failed to unmarshal password from json")]
        ELSE [pw |-> [p EXCEPT !.hashedValue = u.v.HashedValue], err |-> NilError]

\* (p *Password) UnmarshalJSON(data): pw is *p after the call.
UnmarshalJSON(p, data) ==
    LET u == jsonUnmarshal(data, EmptyPasswordJSON)
    IN  IF u.err # NilError
        THEN [pw |-> p,
              err |-> NewErrorWithWrap(FreshPtr(u.err), u.err,
                                       "failed to unmarshal password from json")]
        ELSE IF u.v.HashedValue = << >>
        THEN [pw |-> p,
              err |-> NewError(FreshPtr(NilError),
                  "failed to unmarshal password from json: missing or empty hashedValue")]
        ELSE [pw |-> [p EXCEPT !.hashedValue = u.v.HashedValue], err |-> NilError]

(***************************************************************************)
(* Inputs.                                                                 *)
(***************************************************************************)
\* Longest padding appended to a stem; with it the plaintexts pass the
\* ceiling of 128 code points.
MaxPad == 130
\* Number of salts the random source hands out in one behaviour.
MaxSalts == 2
\* Number of method calls made on one Password before it is dropped.
MaxCalls == 3

\* The first n runes of unit repeated.
Cycle(unit, n) == [i \in 1..n |-> unit[((i - 1) % Len(unit)) + 1]]

\* Plaintexts of the tests, of the examples and of the specification, and
\* some with code points beyond ASCII.
Literals == {
    <<>>,  \* ''
    <<65, 98, 99, 49, 50, 101, -255, -254>>,  \* 'Abc12e' and the bytes ff fe, which encode nothing
    <<65, 98, 49, -255, -254, -253, -252, 120>>,  \* 'Ab1', the bytes ff fe fd fc, 'x'
    <<-255, -254, -253, -252, -251, -250, -249, -248>>,  \* the bytes ff to f8
    <<65>>,  \* 'A'
    <<65, 98, 99, 49, 50, 51, 33>>,  \* 'Abc123!'
    <<115, 104, 111, 114, 116>>,  \* 'short'
    <<97, 100, 109, 105, 110>>,  \* 'admin'
    <<49, 50, 51, 52, 53, 54>>,  \* '123456'
    <<113, 119, 101, 114, 116, 121>>,  \* 'qwerty'
    <<108, 101, 116, 109, 101, 105, 110>>,  \* 'letmein'
    <<65, 98, 99, 49, 50, 51, 33, 64>>,  \* 'Abc123!@'
    <<97, 98, 99, 49, 50, 51, 33, 64>>,  \* 'abc123!@'
    <<65, 66, 67, 49, 50, 51, 33, 64>>,  \* 'ABC123!@'
    <<65, 98, 99, 100, 101, 102, 33, 64>>,  \* 'Abcdef!@'
    <<65, 98, 99, 49, 50, 51, 52, 53>>,  \* 'Abc12345'
    <<65, 98, 99, 68, 101, 102, 71, 104>>,  \* 'AbcDefGh'
    <<49, 50, 51, 52, 53, 54, 55, 56>>,  \* '12345678'
    <<112, 97, 115, 115, 119, 111, 114, 100>>,  \* 'password'
    <<80, 97, 115, 115, 119, 111, 114, 100, 49, 50, 51>>,  \* 'Password123'
    <<84, 101, 115, 116, 49, 50, 51, 52, 33>>,  \* 'Test1234!'
    <<65, 98, 99, 100, 101, 102, 49, 33>>,  \* 'Abcdef1!'
    <<84, 101, 115, 116, 52, 51, 50, 49, 33>>,  \* 'Test4321!'
    <<84, 101, 115, 116, 49, 49, 49, 49, 33>>,  \* 'Test1111!'
    <<65, 97, 97, 97, 97, 49, 50, 51, 33>>,  \* 'Aaaaa123!'
    <<84, 101, 115, 116, 49, 50, 51, 33, 33, 33, 33>>,  \* 'Test123!!!!'
    <<84, 101, 115, 116, 49, 50, 51, 33, 0, 1>>,  \* 'Test123!\x00\x01'
    <<77, 121, 83, 101, 99, 117, 114, 101, 49, 50, 51, 33, 64>>,  \* 'MySecure123!@'
    <<77, 121, 83, 101, 99, 117, 114, 101, 49, 50, 51, 33>>,  \* 'MySecure123!'
    <<84, 101, 115, 116, 49, 50, 51, 33, 64, 35, 36, 37>>,  \* 'Test123!@#$%'
    <<77, 121, 86, 101, 114, 121, 83, 101, 99, 117, 114, 101, 80, 97, 115, 115, 119, 111, 114, 100, 49, 50, 51, 33, 64, 35>>,  \* 'MyVerySecurePassword123!@#'
    <<83, 116, 114, 111, 110, 103, 49, 50, 51, 33, 64>>,  \* 'Strong123!@'
    <<87, 114, 111, 110, 103, 80, 97, 115, 115, 119, 111, 114, 100, 49, 50, 51, 33>>,  \* 'WrongPassword123!'
    <<119, 114, 111, 110, 103>>,  \* 'wrong'
    <<84, 235, 115, 116, 49, 50, 51, 33, 64>>,  \* 'T\xebst123!@'
    <<83, 116, 114, 48, 110, 103, 33, 80, 64, 115, 115, 119, 48, 114, 100>>,  \* 'Str0ng!P@ssw0rd'
    <<78, 111, 78, 117, 109, 98, 101, 114, 115, 33, 64>>,  \* 'NoNumbers!@'
    <<110, 111, 110, 117, 109, 98, 101, 114, 115, 49, 50, 51>>,  \* 'nonumbers123'
    <<78, 79, 76, 79, 87, 69, 82, 67, 65, 83, 69, 49, 50, 51, 33>>,  \* 'NOLOWERCASE123!'
    <<78, 111, 83, 112, 101, 99, 105, 97, 108, 67, 104, 97, 114, 115, 49, 50, 51>>,  \* 'NoSpecialChars123'
    <<84, 101, 115, 116, 64, 49, 50, 51, 80, 97, 115, 115>>,  \* 'Test@123Pass'
    <<80, 97, 115, 115, 119, 111, 114, 100, 49, 33>>,  \* 'Password1!'
    <<80, 65, 83, 83, 87, 79, 82, 68>>,  \* 'PASSWORD'
    <<77, 111, 110, 107, 101, 121, 49, 33>>,  \* 'Monkey1!'
    <<80, 8490, 115, 115, 119, 79, 114, 100>>,  \* 'P\u212asswOrd'
    <<65, 98, 49, 33, 233, 233, 233>>,  \* 'Ab1!\xe9\xe9\xe9'
    <<97, 937, 1635, 8364, 453, 170, 32, 122>>,  \* 'a\u03a9\u0663\u20ac\u01c5\xaa z'
    <<65, 98, 49, 33, 32, 160, 120, 121, 122, 119>>,  \* 'Ab1! \xa0xyzw'
    <<65, 8490, 105, 104, 103, 49, 33, 120>>,  \* 'A\u212aihg1!x'
    <<97, 66, 99, 68, 178, 167, 120, 121>>,  \* 'aBcD\xb2\xa7xy'
    <<120, 89, 56, 57, 48, 49, 33, 121, 122, 97, 98>>,  \* 'xY8901!yzab'
    <<120, 89, 50, 52, 54, 56, 33, 49, 50, 51, 50>>,  \* 'xY2468!1232'
    <<97, 65, 97, 65, 49, 33, 97, 65, 97, 65>>,  \* 'aAaA1!aAaA'
    <<65, 98, 49, 33, 8232, 120, 122, 120, 122>>,  \* 'Ab1!\u2028xzxz'
    <<90, 121, 120, 119, 128512, 1635, 97, 98>>,  \* 'Zyxw\U0001f600\u0663ab'
    <<65, 98, 49, 33, 120, 121, 160, 122>>,  \* 'Ab1!xy\xa0z'
    <<65, 98, 49, 33, 119, 120, 8232, 121, 122>>,  \* 'Ab1!wx\u2028yz'
    <<65, 98, 49, 33, 173, 120, 121, 122>>  \* 'Ab1!\xadxyz'
}

\* "", "Ab1!"
Stems == { << >>, << 65, 98, 49, 33 >> }

\* "x", "ac", U+00E9 U+00F1, NUL, U+20AC "k"
Fillers == { << 120 >>, << 97, 99 >>, << 233, 241 >>, << 0 >>, << 8364, 107 >> }

Padded == { stem \o Cycle(unit, n) : stem \in Stems, unit \in Fillers, n \in 0..MaxPad }

Plaintexts == Literals \cup Padded

\* Attempts made against a Password built from plaintext x: the attempts of
\* the tests and of the example, x itself, and strings made from x.
\* "", "wrong", "WrongPassword123!", "MySecure123!@", "Abc123!@"
AttemptLiterals == {
    << >>,
    << 119, 114, 111, 110, 103 >>,
    << 87, 114, 111, 110, 103, 80, 97, 115, 115, 119, 111, 114, 100, 49, 50, 51, 33 >>,
    << 77, 121, 83, 101, 99, 117, 114, 101, 49, 50, 51, 33, 64 >>,
    << 65, 98, 99, 49, 50, 51, 33, 64 >>
}

Attempts(x) ==
    AttemptLiterals \cup
    { x, x \o << 0 >> \o x, x \o << 0 >>, x \o << 33 >>, << 0 >> \o x,
      ToLower(x), SubSeq(x, 1, Len(x) - 1), SubSeq(x, 2, Len(x)) }

(***************************************************************************)
(* State.                                                                  *)
(***************************************************************************)
VARIABLES
    pw,        \* the Password the caller holds
    held,      \* whether the caller holds a Password built by NewPassword
    plain,     \* the plaintext pw was built from (history, not program state)
    nextSalt,  \* the next salt of the random source
    ncalls,    \* how many methods were called on pw since it was built (history)
    last,      \* the call just made, its argument and what it returned
    pw2,       \* a second Password variable of the caller
    from2,     \* the call that gave pw2 its value, "none" for Password{} (history)
    plain2,    \* the plaintext pw2 was built from, if NewPassword built it (history)
    inv,       \* the invocations in progress, one for each goroutine
    chain      \* an error the caller has built with NewError and NewErrorWithWrap

vars == << pw, held, plain, nextSalt, ncalls, last, pw2, from2, plain2, inv, chain >>

second == << pw2, from2, plain2 >>

aside == << inv, chain >>

NoCall == [op |-> "none", arg |-> << >>, err |-> NilError, pw |-> EmptyPassword,
           str |-> << >>, ok |-> FALSE, json |-> JSONText("null"), calls |-> << >>,
           rules |-> << >>, self |-> EmptyPassword, text |-> ""]

\* Number of goroutines that call NewPassword and Verify side by side.
Goroutines == 2

\* A goroutine that is in no call.
Idle == [op |-> "none", arg |-> << >>, self |-> EmptyPassword, pc |-> "idle",
         err |-> NilError, salt |-> 0, result |-> [pw |-> EmptyPassword, err |-> NilError]]

Init ==
    /\ inv = [t \in 1..Goroutines |-> Idle]
    /\ chain = NilError
    /\ pw = EmptyPassword
    /\ held = FALSE
    /\ plain = << >>
    /\ nextSalt = 1
    /\ ncalls = 0
    /\ last = NoCall
    /\ pw2 = EmptyPassword
    /\ from2 = "none"
    /\ plain2 = << >>

\* auth.ValidatePassword(x)
CallValidatePassword(x) ==
    /\ last.op = "none"
    /\ ~held
    /\ LET run == ValidatePasswordRun(x)
       IN  last' = [NoCall EXCEPT !.op = "ValidatePassword", !.arg = x,
                                  !.err = run.err, !.rules = run.rules]
    /\ UNCHANGED << pw, held, plain, nextSalt, ncalls >>
    /\ UNCHANGED second
    /\ UNCHANGED aside

\* pw, err := auth.NewPassword(x)
CallNewPassword(x) ==
    /\ last.op = "none"
    /\ ~held
    /\ nextSalt <= MaxSalts
    /\ LET r == NewPassword(x, nextSalt)
       IN  /\ last' = [NoCall EXCEPT !.op = "NewPassword", !.arg = x,
                                     !.err = r.err, !.pw = r.pw, !.calls = r.calls]
           /\ IF r.err = NilError
              THEN /\ pw' = r.pw
                   /\ held' = TRUE
                   /\ plain' = x
                   /\ nextSalt' = nextSalt + 1
                   /\ ncalls' = 0
              ELSE UNCHANGED << pw, held, plain, nextSalt, ncalls >>
    /\ UNCHANGED second
    /\ UNCHANGED aside

\* err := pw.Verify(y)
CallVerify(y) ==
    /\ last.op = "none"
    /\ held
    /\ ncalls < MaxCalls
    /\ ncalls' = ncalls + 1
    /\ last' = [NoCall EXCEPT !.op = "Verify", !.self = pw, !.arg = y,
                              !.err = Verify(pw, y)]
    /\ UNCHANGED << pw, held, plain, nextSalt >>
    /\ UNCHANGED second
    /\ UNCHANGED aside

\* pw.Equals(other), other being pw itself or Password{}
CallEquals(other) ==
    /\ last.op = "none"
    /\ held
    /\ ncalls < MaxCalls
    /\ ncalls' = ncalls + 1
    /\ last' = [NoCall EXCEPT !.op = "Equals", !.self = pw, !.arg = other.hashedValue,
                              !.ok = Equals(pw, other)]
    /\ UNCHANGED << pw, held, plain, nextSalt >>
    /\ UNCHANGED second
    /\ UNCHANGED aside

\* pw.HashedValue()
CallHashedValue ==
    /\ last.op = "none"
    /\ held
    /\ ncalls < MaxCalls
    /\ ncalls' = ncalls + 1
    /\ last' = [NoCall EXCEPT !.op = "HashedValue", !.self = pw,
                              !.str = HashedValue(pw)]
    /\ UNCHANGED << pw, held, plain, nextSalt >>
    /\ UNCHANGED second
    /\ UNCHANGED aside

\* pw.String()
CallString ==
    /\ last.op = "none"
    /\ held
    /\ ncalls < MaxCalls
    /\ ncalls' = ncalls + 1
    /\ last' = [NoCall EXCEPT !.op = "String", !.self = pw, !.str = String(pw)]
    /\ UNCHANGED << pw, held, plain, nextSalt >>
    /\ UNCHANGED second
    /\ UNCHANGED aside

\* pw.MarshalJSON()
CallMarshalJSON ==
    /\ last.op = "none"
    /\ held
    /\ ncalls < MaxCalls
    /\ ncalls' = ncalls + 1
    /\ LET m == MarshalJSON(pw)
       IN  last' = [NoCall EXCEPT !.op = "MarshalJSON", !.self = pw, !.json = m.json,
                                  !.err = m.err]
    /\ UNCHANGED << pw, held, plain, nextSalt >>
    /\ UNCHANGED second
    /\ UNCHANGED aside

\* The caller has looked at the result and goes on.
Continue ==
    /\ last.op # "none"
    /\ last' = NoCall
    /\ UNCHANGED << pw, held, plain, nextSalt, ncalls >>
    /\ UNCHANGED second
    /\ UNCHANGED aside

\* The caller drops the Password it holds.
Release ==
    /\ last.op = "none"
    /\ held
    /\ pw' = EmptyPassword
    /\ held' = FALSE
    /\ plain' = << >>
    /\ ncalls' = 0
    /\ UNCHANGED << nextSalt, last >>
    /\ UNCHANGED second
    /\ UNCHANGED aside

Next ==
    \/ \E x \in Plaintexts : CallValidatePassword(x)
    \/ \E x \in Plaintexts : CallNewPassword(x)
    \/ \E y \in Attempts(plain) : CallVerify(y)
    \/ \E other \in {pw, EmptyPassword} : CallEquals(other)
    \/ CallHashedValue
    \/ CallString
    \/ CallMarshalJSON
    \/ Continue
    \/ Release

Spec == Init /\ [][Next]_vars

(***************************************************************************)
(* Persistence: a second Password variable that is reconstituted, read     *)
(* from JSON or built by a second NewPassword, next to the first.          *)
(***************************************************************************)
\* 'MySecure123!@', 'MyVerySecurePassword123!@#', 'T\xebst123!@', 'password'
StorePlaintexts == {
    << 77, 121, 83, 101, 99, 117, 114, 101, 49, 50, 51, 33, 64 >>,
    << 77, 121, 86, 101, 114, 121, 83, 101, 99, 117, 114, 101, 80, 97, 115, 115,
       119, 111, 114, 100, 49, 50, 51, 33, 64, 35 >>,
    << 84, 235, 115, 116, 49, 50, 51, 33, 64 >>,
    << 112, 97, 115, 115, 119, 111, 114, 100 >>
}

\* A hash bcrypt made of the empty password, with salt 0, outside NewPassword.
EmptyPasswordHash == FormatHash(BcryptCost, 0, BcryptDigest(<< >>, BcryptCost, 0))

\* "not-a-hash"
NotAHash == << 110, 111, 116, 45, 97, 45, 104, 97, 115, 104 >>

\* Two bytes that are not UTF-8: 0xff 0xfe
NotUTF8 == << 0 - 255, 0 - 254 >>

\* Strings made from a hash h that still have the form of a hash: h itself,
\* "$2b$" and "$2$" in place of "$2a$", another last character, a byte 0xff
\* appended.
Reformed(h) ==
    { h,
      [h EXCEPT ![3] = 98],
      << 36, 50, 36 >> \o SubSeq(h, 5, Len(h)),
      [h EXCEPT ![Len(h)] = 33],
      h \o << 0 - 255 >> }

\* Strings made from a hash h that have not: version 3, a cost that is no
\* number, cost 03, a salt character outside the alphabet, h cut short, h
\* without its first character.
Deformed(h) ==
    { [h EXCEPT ![2] = 51],
      [h EXCEPT ![5] = 120],
      [h EXCEPT ![5] = 48, ![6] = 51],
      [h EXCEPT ![8] = 33],
      SubSeq(h, 1, Len(h) - 2),
      SubSeq(h, 2, Len(h)) }

\* Strings a caller may hold as stored hashes while p is the first Password.
StoredStrings(p) ==
    { << >>, NotAHash, NotUTF8 }
        \cup Reformed(EmptyPasswordHash) \cup Deformed(EmptyPasswordHash)
        \cup (IF p.hashedValue = << >> THEN {} ELSE Reformed(p.hashedValue))

\* "HASHEDVALUE", "invalid", "json"
UpperKey == << 72, 65, 83, 72, 69, 68, 86, 65, 76, 85, 69 >>
InvalidKey == << 105, 110, 118, 97, 108, 105, 100 >>
JsonWord == << 106, 115, 111, 110 >>

\* JSON texts that carry the string h.
TextsWith(h) ==
    { jsonMarshal([HashedValue |-> h]).json,
      JSONObject(<< JSONString(hashedValueKey, h) >>),
      JSONObject(<< JSONString(UpperKey, h) >>),
      JSONObject(<< JSONString(InvalidKey, JsonWord), JSONString(hashedValueKey, h) >>),
      JSONObject(<< JSONString(hashedValueKey, h), JSONString(hashedValueKey, << >>) >>),
      JSONObject(<< JSONString(hashedValueKey, << >>), JSONString(hashedValueKey, h) >>),
      JSONObject(<< JSONString(hashedValueKey, h), JSONOther(hashedValueKey, "null") >>),
      JSONObject(<< JSONOther(hashedValueKey, "number"), JSONString(hashedValueKey, h) >>),
      JSONObject(<< JSONString(InvalidKey, h) >>) }

\* JSON texts handed to the two deserializers while p and q are held.
JSONTexts(p, q) ==
    { JSONText("syntax error"), JSONText("null"), JSONText("array"),
      JSONText("string"), JSONObject(<< >>),
      JSONObject(<< JSONString(InvalidKey, JsonWord) >>),
      JSONObject(<< JSONOther(hashedValueKey, "null") >>),
      JSONObject(<< JSONOther(hashedValueKey, "number") >>),
      JSONObject(<< JSONOther(hashedValueKey, "object") >>) }
        \cup TextsWith(p.hashedValue) \cup TextsWith(NotUTF8)
        \cup { jsonMarshal([HashedValue |-> h]).json : h \in {q.hashedValue, NotAHash} }

\* "", "wrong", and the plaintexts the two Passwords were built from
Attempts2 ==
    { << >>, << 119, 114, 111, 110, 103 >>, plain, plain2,
      plain \o << 0 >> \o plain }

\* pw2, err := auth.NewPassword(x), while pw is held
CallNewPasswordAgain(x) ==
    /\ last.op = "none"
    /\ held
    /\ nextSalt <= MaxSalts
    /\ LET r == NewPassword(x, nextSalt)
       IN  /\ last' = [NoCall EXCEPT !.op = "NewPassword", !.arg = x,
                                     !.err = r.err, !.pw = r.pw, !.calls = r.calls]
           /\ pw2' = r.pw
           /\ from2' = IF r.err = NilError THEN "NewPassword" ELSE "none"
           /\ plain2' = IF r.err = NilError THEN x ELSE << >>
           /\ nextSalt' = IF r.err = NilError THEN nextSalt + 1 ELSE nextSalt
    /\ UNCHANGED << pw, held, plain, ncalls >>
    /\ UNCHANGED aside

\* pw2 = auth.ReconstitutePassword(h)
CallReconstitutePassword(h) ==
    /\ last.op = "none"
    /\ pw2' = ReconstitutePassword(h)
    /\ from2' = "ReconstitutePassword"
    /\ plain2' = << >>
    /\ last' = [NoCall EXCEPT !.op = "ReconstitutePassword", !.arg = h,
                              !.pw = ReconstitutePassword(h)]
    /\ UNCHANGED << pw, held, plain, nextSalt, ncalls >>
    /\ UNCHANGED aside

\* pw2, err = auth.NewPasswordFromJSON(data)
CallNewPasswordFromJSON(data) ==
    /\ last.op = "none"
    /\ LET r == NewPasswordFromJSON(data)
       IN  /\ last' = [NoCall EXCEPT !.op = "NewPasswordFromJSON", !.json = data,
                                     !.err = r.err, !.pw = r.pw]
           /\ pw2' = r.pw
           /\ from2' = IF r.err = NilError THEN "NewPasswordFromJSON" ELSE "none"
    /\ plain2' = << >>
    /\ UNCHANGED << pw, held, plain, nextSalt, ncalls >>
    /\ UNCHANGED aside

\* err = pw2.UnmarshalJSON(data), or json.Unmarshal(data, &pw2)
CallUnmarshalJSON(data) ==
    /\ last.op = "none"
    /\ LET r == UnmarshalJSON(pw2, data)
       IN  /\ last' = [NoCall EXCEPT !.op = "UnmarshalJSON", !.self = pw2,
                                     !.json = data, !.err = r.err, !.pw = r.pw]
           /\ pw2' = r.pw
           /\ from2' = IF r.err = NilError THEN "UnmarshalJSON" ELSE from2
           /\ plain2' = IF r.err = NilError THEN << >> ELSE plain2
    /\ UNCHANGED << pw, held, plain, nextSalt, ncalls >>
    /\ UNCHANGED aside

\* err := pw2.Verify(y)
CallVerify2(y) ==
    /\ last.op = "none"
    /\ last' = [NoCall EXCEPT !.op = "Verify", !.self = pw2, !.arg = y,
                              !.err = Verify(pw2, y)]
    /\ UNCHANGED << pw, held, plain, nextSalt, ncalls, pw2, from2, plain2 >>
    /\ UNCHANGED aside

\* pw2.Equals(other), other being pw, pw2 or Password{}
CallEquals2(other) ==
    /\ last.op = "none"
    /\ last' = [NoCall EXCEPT !.op = "Equals", !.self = pw2,
                              !.arg = other.hashedValue, !.ok = Equals(pw2, other)]
    /\ UNCHANGED << pw, held, plain, nextSalt, ncalls, pw2, from2, plain2 >>
    /\ UNCHANGED aside

\* pw2.HashedValue()
CallHashedValue2 ==
    /\ last.op = "none"
    /\ last' = [NoCall EXCEPT !.op = "HashedValue", !.self = pw2,
                              !.str = HashedValue(pw2)]
    /\ UNCHANGED << pw, held, plain, nextSalt, ncalls, pw2, from2, plain2 >>
    /\ UNCHANGED aside

\* pw2.String()
CallString2 ==
    /\ last.op = "none"
    /\ last' = [NoCall EXCEPT !.op = "String", !.self = pw2, !.str = String(pw2)]
    /\ UNCHANGED << pw, held, plain, nextSalt, ncalls, pw2, from2, plain2 >>
    /\ UNCHANGED aside

\* pw2.MarshalJSON()
CallMarshalJSON2 ==
    /\ last.op = "none"
    /\ LET m == MarshalJSON(pw2)
       IN  last' = [NoCall EXCEPT !.op = "MarshalJSON", !.self = pw2,
                                  !.json = m.json, !.err = m.err]
    /\ UNCHANGED << pw, held, plain, nextSalt, ncalls, pw2, from2, plain2 >>
    /\ UNCHANGED aside

\* pw2 = Password{}
Release2 ==
    /\ last.op = "none"
    /\ from2 # "none"
    /\ pw2' = EmptyPassword
    /\ from2' = "none"
    /\ plain2' = << >>
    /\ UNCHANGED << pw, held, plain, nextSalt, ncalls, last >>
    /\ UNCHANGED aside

NextPersist ==
    \/ \E x \in StorePlaintexts : CallNewPassword(x)
    \/ \E x \in {plain} \cup StorePlaintexts : CallNewPasswordAgain(x)
    \/ \E h \in StoredStrings(pw) : CallReconstitutePassword(h)
    \/ \E data \in JSONTexts(pw, pw2) : CallNewPasswordFromJSON(data)
    \/ \E data \in JSONTexts(pw, pw2) : CallUnmarshalJSON(data)
    \/ \E y \in Attempts2 : CallVerify2(y)
    \/ \E other \in {pw, pw2, EmptyPassword} : CallEquals2(other)
    \/ CallHashedValue2
    \/ CallString2
    \/ CallMarshalJSON2
    \/ Continue
    \/ Release
    \/ Release2

SpecPersist == Init /\ [][NextPersist]_vars

(***************************************************************************)
(* Goroutines: NewPassword and Verify run side by side, each call taken    *)
(* apart into the statements it executes.  All that a call works on is its *)
(* arguments and its local variables, kept in inv[t].                      *)
(***************************************************************************)
\* 'MySecure123!@', 'password', and 'Ab1!' followed by 70 characters 'acac...'
ConcurrentPlaintexts == {
    << 77, 121, 83, 101, 99, 117, 114, 101, 49, 50, 51, 33, 64 >>,
    << 112, 97, 115, 115, 119, 111, 114, 100 >>,
    << 65, 98, 49, 33 >> \o Cycle(<< 97, 99 >>, 70)
}

\* The Passwords the goroutines verify against: two built from
\* 'MySecure123!@', and Password{}.
ConcurrentPasswords ==
    { NewPassword(<< 77, 121, 83, 101, 99, 117, 114, 101, 49, 50, 51, 33, 64 >>, k).pw :
          k \in 1..2 } \cup { EmptyPassword }

\* 'MySecure123!@', 'wrong'
ConcurrentAttempts == {
    << 77, 121, 83, 101, 99, 117, 114, 101, 49, 50, 51, 33, 64 >>,
    << 119, 114, 111, 110, 103 >>
}

\* Mutant: the plaintext to hash is taken from a buffer that all goroutines
\* share, which holds the plaintext of the first of them that is hashing.
HashStep_SharedBuffer(invs, t, salt) ==
    LET u == CHOOSE u \in DOMAIN invs :
                 /\ invs[u].pc = "hash"
                 /\ \A v \in DOMAIN invs : invs[v].pc = "hash" => u <= v
        gen == GenerateFromPassword(StringBytes(invs[u].arg), BcryptCost, salt)
    IN  IF gen.err # NilError
        THEN [pw |-> EmptyPassword,
              err |-> NewErrorWithWrap(FreshPtr(gen.err), gen.err,
                                       "failed to hash password")]
        ELSE [pw |-> [hashedValue |-> gen.hash], err |-> NilError]

\* NewPassword from the call of bcrypt.GenerateFromPassword on: what
\* goroutine t returns when the random source delivers salt.
HashStep(invs, t, salt) ==
    LET gen == GenerateFromPassword(StringBytes(invs[t].arg), BcryptCost, salt)
    IN  IF gen.err # NilError
        THEN [pw |-> EmptyPassword,
              err |-> NewErrorWithWrap(FreshPtr(gen.err), gen.err,
                                       "failed to hash password")]
        ELSE [pw |-> [hashedValue |-> gen.hash], err |-> NilError]

\* go NewPassword(x)
GoNewPassword(t, x) ==
    /\ inv[t].pc = "idle"
    /\ inv' = [inv EXCEPT ![t] = [Idle EXCEPT !.op = "NewPassword", !.arg = x,
                                              !.pc = "validate"]]
    /\ UNCHANGED << pw, held, plain, nextSalt, ncalls, last, pw2, from2, plain2, chain >>

\* if err := ValidatePassword(plaintext); err != nil { return Password{}, err }
StepValidate(t) ==
    /\ inv[t].pc = "validate"
    /\ LET err == ValidatePassword(inv[t].arg)
       IN  inv' = [inv EXCEPT ![t] =
                      IF err # NilError
                      THEN [@ EXCEPT !.pc = "done", !.err = err,
                                     !.result = [pw |-> EmptyPassword, err |-> err]]
                      ELSE [@ EXCEPT !.pc = "hash"]]
    /\ UNCHANGED << pw, held, plain, nextSalt, ncalls, last, pw2, from2, plain2, chain >>

\* hashedBytes, err := bcrypt.GenerateFromPassword(...) and the two returns
\* after it; the salt is whatever the random source delivers.
StepHash(t) ==
    /\ inv[t].pc = "hash"
    /\ \E salt \in 1..MaxSalts :
           inv' = [inv EXCEPT ![t] = [@ EXCEPT !.pc = "done", !.salt = salt,
                                               !.result = HashStep(inv, t, salt)]]
    /\ UNCHANGED << pw, held, plain, nextSalt, ncalls, last, pw2, from2, plain2, chain >>

\* go p.Verify(y)
GoVerify(t, p, y) ==
    /\ inv[t].pc = "idle"
    /\ inv' = [inv EXCEPT ![t] = [Idle EXCEPT !.op = "Verify", !.self = p, !.arg = y,
                                              !.pc = "compare"]]
    /\ UNCHANGED << pw, held, plain, nextSalt, ncalls, last, pw2, from2, plain2, chain >>

\* err := bcrypt.CompareHashAndPassword([]byte(p.hashedValue), []byte(plaintext))
StepCompare(t) ==
    /\ inv[t].pc = "compare"
    /\ inv' = [inv EXCEPT ![t] =
                  [@ EXCEPT !.pc = "return",
                            !.err = CompareHashAndPassword(inv[t].self.hashedValue,
                                                           StringBytes(inv[t].arg))]]
    /\ UNCHANGED << pw, held, plain, nextSalt, ncalls, last, pw2, from2, plain2, chain >>

\* The three returns of Verify.
StepReturn(t) ==
    /\ inv[t].pc = "return"
    /\ LET err == inv[t].err
           res == IF err = NilError THEN NilError
                  ELSE IF ErrorsIs(err, bcryptErrMismatchedHashAndPassword)
                       THEN ErrPasswordVerifyFailed
                  ELSE NewErrorWithWrap(FreshPtr(err), err, "failed to verify password")
       IN  inv' = [inv EXCEPT ![t] =
                      [@ EXCEPT !.pc = "done",
                                !.result = [pw |-> EmptyPassword, err |-> res]]]
    /\ UNCHANGED << pw, held, plain, nextSalt, ncalls, last, pw2, from2, plain2, chain >>

\* The goroutine has handed its result to its caller.
Done(t) ==
    /\ inv[t].pc = "done"
    /\ inv' = [inv EXCEPT ![t] = Idle]
    /\ UNCHANGED << pw, held, plain, nextSalt, ncalls, last, pw2, from2, plain2, chain >>

NextConcurrent ==
    \/ \E t \in 1..Goroutines, x \in ConcurrentPlaintexts : GoNewPassword(t, x)
    \/ \E t \in 1..Goroutines : StepValidate(t)
    \/ \E t \in 1..Goroutines : StepHash(t)
    \/ \E t \in 1..Goroutines, p \in ConcurrentPasswords, y \in ConcurrentAttempts :
           GoVerify(t, p, y)
    \/ \E t \in 1..Goroutines : StepCompare(t)
    \/ \E t \in 1..Goroutines : StepReturn(t)
    \/ \E t \in 1..Goroutines : Done(t)

SpecConcurrent == Init /\ [][NextConcurrent]_vars

(***************************************************************************)
(* Error chains: a caller builds an error with errors.New or               *)
(* domain.NewError, wraps it with domain.NewErrorWithWrap, and inspects    *)
(* the outermost error with Error(), Unwrap() and errors.Is.               *)
(***************************************************************************)
\* Most wrappers put around one base error.
MaxWraps == 3

ErrorMessages == { "base error", "first wrap", "second wrap" }

\* errors.New(msg): an error of another type, with its own identity.
ErrorsNew(ptr, msg) == << [ptr |-> ptr, msg |-> msg] >>

\* The errors of the chain of err: err itself and what Unwrap reaches.
ChainErrors(err) == { SubSeq(err, i, Len(err)) : i \in 1..Len(err) }

\* What the caller asks errors.Is for: the errors of the chain, nil, and
\* errors allocated elsewhere, some with a message the chain has too.
ErrorTargets(err) ==
    IF err = NilError THEN { NilError }
    ELSE ChainErrors(err)
        \cup { NilError, ErrorsNew("errors.New#2", "different error"),
               ErrorsNew("errors.New#2", err[Len(err)].msg),
               NewError(FreshPtr(err), err[1].msg),
               NewErrorWithWrap(FreshPtr(err), ErrorsNew("errors.New#2", "different error"),
                                err[1].msg) }

CallErrorsNew(msg) ==
    /\ last.op = "none"
    /\ chain = NilError
    /\ chain' = ErrorsNew("errors.New#1", msg)
    /\ last' = [NoCall EXCEPT !.op = "errors.New", !.text = msg]
    /\ UNCHANGED << pw, held, plain, nextSalt, ncalls, pw2, from2, plain2, inv >>

CallNewError(msg) ==
    /\ last.op = "none"
    /\ chain = NilError
    /\ chain' = NewError(FreshPtr(NilError), msg)
    /\ last' = [NoCall EXCEPT !.op = "NewError", !.text = msg]
    /\ UNCHANGED << pw, held, plain, nextSalt, ncalls, pw2, from2, plain2, inv >>

\* last.err is the error handed in, chain becomes the error handed back.
CallNewErrorWithWrap(msg) ==
    /\ last.op = "none"
    /\ Len(chain) <= MaxWraps
    /\ chain' = NewErrorWithWrap(FreshPtr(chain), chain, msg)
    /\ last' = [NoCall EXCEPT !.op = "NewErrorWithWrap", !.err = chain, !.text = msg]
    /\ UNCHANGED << pw, held, plain, nextSalt, ncalls, pw2, from2, plain2, inv >>

CallError ==
    /\ last.op = "none"
    /\ chain # NilError
    /\ last' = [NoCall EXCEPT !.op = "Error", !.text = Error(chain)]
    /\ UNCHANGED << pw, held, plain, nextSalt, ncalls, pw2, from2, plain2, inv, chain >>

\* Unwrap is a method of *domain.Error only.
CallUnwrap ==
    /\ last.op = "none"
    /\ chain # NilError
    /\ chain[1].ptr # "errors.New#1"
    /\ last' = [NoCall EXCEPT !.op = "Unwrap", !.err = Unwrap(chain)]
    /\ UNCHANGED << pw, held, plain, nextSalt, ncalls, pw2, from2, plain2, inv, chain >>

\* last.err is the target asked for, last.ok the answer.
CallErrorsIs(target) ==
    /\ last.op = "none"
    /\ chain # NilError
    /\ last' = [NoCall EXCEPT !.op = "errors.Is", !.err = target,
                              !.ok = ErrorsIs(chain, target)]
    /\ UNCHANGED << pw, held, plain, nextSalt, ncalls, pw2, from2, plain2, inv, chain >>

\* The caller lets go of the error.
DropError ==
    /\ last.op = "none"
    /\ chain # NilError
    /\ chain' = NilError
    /\ UNCHANGED << pw, held, plain, nextSalt, ncalls, last, pw2, from2, plain2, inv >>

NextErrors ==
    \/ \E msg \in ErrorMessages : CallErrorsNew(msg)
    \/ \E msg \in ErrorMessages : CallNewError(msg)
    \/ \E msg \in ErrorMessages : CallNewErrorWithWrap(msg)
    \/ CallError
    \/ CallUnwrap
    \/ \E target \in ErrorTargets(chain) : CallErrorsIs(target)
    \/ DropError
    \/ Continue

SpecErrors == Init /\ [][NextErrors]_vars

(***************************************************************************)
(* Pattern detectors called on their own.                                  *)
(***************************************************************************)
\* Longest string over RepeatAlphabet handed to the detectors.
MaxRepeatLen == 5

\* First code points of the windows: the digits and the letters at both ends
\* of their ranges, and the code points next to the ranges.
SequentialStarts ==
    { 47, 48, 49, 54, 56, 57, 58, 64, 65, 66, 87, 88, 90, 91,
      96, 97, 98, 119, 120, 122, 123 }

\* Differences between neighbours of a window.
SequentialSteps == { -1, 0, 1, 2 }

\* The other case of an ASCII letter.
SwapCase(r) ==
    IF r \in 65..90 THEN r + 32 ELSE IF r \in 97..122 THEN r - 32 ELSE r

\* Windows of 4 code points with every combination of steps, and with the
\* case of every subset of their positions swapped.
StepWindows ==
    { [k \in 1..4 |-> IF k \in m THEN SwapCase(w[k]) ELSE w[k]] :
        w \in { << r, r + d1, r + d1 + d2, r + d1 + d2 + d3 >> :
                  r \in SequentialStarts,
                  d1 \in SequentialSteps, d2 \in SequentialSteps, d3 \in SequentialSteps },
        m \in SUBSET (1..4) }

\* Windows of the tests and of the specification, and others at the ends of
\* the ranges; U+212A KELVIN SIGN has the lower case 'k'.
NamedWindows == {
    <<99, 49, 50, 51>>,  \* 'c123'
    <<56, 57, 48, 49>>,  \* '8901'
    <<121, 122, 97, 98>>,  \* 'yzab'
    <<49, 50, 51, 50>>,  \* '1232'
    <<50, 52, 54, 56>>,  \* '2468'
    <<97, 66, 99, 68>>,  \* 'aBcD'
    <<49, 50, 51, 52>>,  \* '1234'
    <<57, 56, 55, 54>>,  \* '9876'
    <<122, 121, 120, 119>>,  \* 'zyxw'
    <<104, 105, 106, 8490>>,  \* 'hij' and the Kelvin sign
    <<8490, 108, 109, 110>>,  \* the Kelvin sign and 'lmn'
    <<1632, 1633, 1634, 1635>>,  \* Arabic-Indic digits zero to three
    <<224, 225, 226, 227>>,  \* a-grave to a-tilde
    <<-255, -254, -253, -252>>  \* four bytes that encode nothing
}

\* What stands before and after a window.
WindowPads == {
    <<>>,
    <<120>>,  \* 'x'
    <<49, 50, 51>>,  \* '123'
    <<233, 33>>,  \* e-acute and '!'
    <<97, 98, 99>>  \* 'abc'
}

RepeatAlphabet == { 97, 65, 233, 128512 }

\* Strings with runs longer than MaxRepeatLen allows, and bytes that encode
\* nothing.
NamedRepeats == {
    <<97, 97, 97, 98, 97, 97, 97>>,  \* 'aaabaaa'
    <<97, 97, 98, 98, 99, 99, 100, 100>>,  \* 'aabbccdd'
    <<65, 97, 97, 97, 97, 49, 50, 51, 33>>,  \* 'Aaaaa123!'
    <<84, 101, 115, 116, 49, 49, 49, 49, 33>>,  \* 'Test1111!'
    <<80, 97, 115, 115, 33, 33, 33, 33, 49>>,  \* 'Pass!!!!1'
    <<195, 169, 195, 169>>,  \* the bytes of two e-acute taken as code points
    <<-255, -255, -255, -255>>,  \* one byte that encodes nothing, four times
    <<-255, -254, -253, -252>>,  \* four different bytes that encode nothing
    <<-255, -254, 97, -252>>
}

DetectorInputs ==
    StepWindows
        \cup { SubSeq(w, 1, n) : w \in NamedWindows, n \in 0..3 }
        \cup { pre \o w \o post : w \in NamedWindows, pre \in WindowPads, post \in WindowPads }
        \cup UNION { [1..n -> RepeatAlphabet] : n \in 0..MaxRepeatLen }
        \cup NamedRepeats

CallIsSequentialPattern(s) ==
    /\ last.op = "none"
    /\ last' = [NoCall EXCEPT !.op = "isSequentialPattern", !.arg = s,
                              !.ok = isSequentialPattern(s)]
    /\ UNCHANGED << pw, held, plain, nextSalt, ncalls, pw2, from2, plain2, inv, chain >>

CallIsRepeatingPattern(s) ==
    /\ last.op = "none"
    /\ last' = [NoCall EXCEPT !.op = "isRepeatingPattern", !.arg = s,
                              !.ok = isRepeatingPattern(s)]
    /\ UNCHANGED << pw, held, plain, nextSalt, ncalls, pw2, from2, plain2, inv, chain >>

NextDetectors ==
    \/ \E s \in DetectorInputs : CallIsSequentialPattern(s)
    \/ \E s \in DetectorInputs : CallIsRepeatingPattern(s)
    \/ Continue

SpecDetectors == Init /\ [][NextDetectors]_vars

(***************************************************************************)
(* The rules of the policy, stated on the plaintext.                       *)
(***************************************************************************)
TooFewRunes(x) == Len(x) < 8
TooManyRunes(x) == Len(x) > 128
\* The code points of the plaintext; a byte that encodes nothing counts as
\* U+FFFD.
CodePoints(x) == [i \in 1..Len(x) |-> IF x[i] < 0 THEN 65533 ELSE x[i]]
HasNonPrintable(x) == \E i \in 1..Len(x) : ~IsPrint(CodePoints(x)[i])
LacksClass(x) ==
    \/ ~(\E i \in 1..Len(x) : IsUpper(CodePoints(x)[i]))
    \/ ~(\E i \in 1..Len(x) : IsLower(CodePoints(x)[i]))
    \/ ~(\E i \in 1..Len(x) : IsNumber(CodePoints(x)[i]))
    \/ ~(\E i \in 1..Len(x) : IsPunct(CodePoints(x)[i]) \/ IsSymbol(CodePoints(x)[i]))
OnDenyList(x) == ToLower(x) \in commonPasswords

\* A window of four ASCII digits, or of four letters a-z after case folding,
\* that ascends or descends by one.
HasSequentialRun(x) ==
    LET r == CodePoints(x)
    IN  \E i \in 1..(Len(r) - 3) :
            \/ /\ \A k \in 0..3 : r[i + k] \in 48..57
               /\ \/ \A k \in 1..3 : r[i + k] = r[i] + k
                  \/ \A k \in 1..3 : r[i + k] = r[i] - k
            \/ /\ \A k \in 0..3 : ToLowerRune(r[i + k]) \in 97..122
               /\ \/ \A k \in 1..3 : ToLowerRune(r[i + k]) = ToLowerRune(r[i]) + k
                  \/ \A k \in 1..3 : ToLowerRune(r[i + k]) = ToLowerRune(r[i]) - k

\* Four equal code points in a row.
HasRepeatingRun(x) ==
    LET r == CodePoints(x)
    IN  \E i \in 1..(Len(r) - 3) : \A k \in 1..3 : r[i + k] = r[i]

PassesRules1To4(x) ==
    ~TooFewRunes(x) /\ ~TooManyRunes(x) /\ ~HasNonPrintable(x) /\ ~LacksClass(x)

\* C1: ValidatePassword returns the error of the first failing rule in the
\* order floor, ceiling, printable, complexity, deny-list, patterns; it
\* evaluates no rule after the one that fails; it returns nil exactly when no
\* rule fails.
C1_FirstFailingRule ==
    last.op = "ValidatePassword" =>
        LET x == last.arg
        IN  /\ TooFewRunes(x) =>
                 last.err = ErrPasswordTooShort /\ last.rules = <<"floor">>
            /\ (~TooFewRunes(x) /\ TooManyRunes(x)) =>
                 /\ last.err = ErrPasswordTooLong
                 /\ last.rules = <<"floor", "ceiling">>
            /\ (~TooFewRunes(x) /\ ~TooManyRunes(x) /\ HasNonPrintable(x)) =>
                 /\ last.err = ErrInvalidPasswordChars
                 /\ last.rules = <<"floor", "ceiling", "printable">>
            /\ (~TooFewRunes(x) /\ ~TooManyRunes(x) /\ ~HasNonPrintable(x)
                  /\ LacksClass(x)) =>
                 /\ last.err = ErrPasswordTooWeak
                 /\ last.rules = <<"floor", "ceiling", "printable", "complexity">>
            /\ (PassesRules1To4(x) /\ OnDenyList(x)) =>
                 /\ last.err = ErrPasswordCommon
                 /\ last.rules = <<"floor", "ceiling", "printable", "complexity",
                                   "denylist">>
            /\ (PassesRules1To4(x) /\ ~OnDenyList(x)
                  /\ (HasSequentialRun(x) \/ HasRepeatingRun(x))) =>
                 /\ last.err = ErrPasswordCommon
                 /\ last.rules = <<"floor", "ceiling", "printable", "complexity",
                                   "denylist", "patterns">>
            /\ last.err = NilError <=>
                 /\ PassesRules1To4(x)
                 /\ ~OnDenyList(x)
                 /\ ~HasSequentialRun(x)
                 /\ ~HasRepeatingRun(x)

\* A plaintext that fails the complexity rule and is on the deny-list was
\* answered with the complexity error.
C1_Witness ==
    /\ last.op = "ValidatePassword"
    /\ ~TooFewRunes(last.arg) /\ ~TooManyRunes(last.arg)
    /\ ~HasNonPrintable(last.arg)
    /\ LacksClass(last.arg) /\ OnDenyList(last.arg)
    /\ last.err = ErrPasswordTooWeak

\* C2: NewPassword of a plaintext of fewer than 8 code points fails with
\* ErrPasswordTooShort, whatever else the plaintext contains.
C2_TooShort ==
    (last.op = "NewPassword" /\ Len(last.arg) < 8) =>
        /\ last.err = ErrPasswordTooShort
        /\ ErrorsIs(last.err, ErrPasswordTooShort)
        /\ last.pw = EmptyPassword

\* Seven code points that take eight bytes or more in UTF-8 were rejected
\* as too short.
C2_Witness ==
    /\ last.op = "NewPassword"
    /\ Len(last.arg) = 7
    /\ Len(StringBytes(last.arg)) >= 8
    /\ ~HasNonPrintable(last.arg) /\ ~LacksClass(last.arg)
    /\ last.err = ErrPasswordTooShort

\* C3: NewPassword of a plaintext of more than 128 code points fails with
\* ErrPasswordTooLong, whatever else the plaintext contains, and a plaintext
\* of exactly 128 code points is never answered with ErrPasswordTooLong.
C3_TooLong ==
    last.op = "NewPassword" =>
        /\ Len(last.arg) > 128 =>
             /\ last.err = ErrPasswordTooLong
             /\ ErrorsIs(last.err, ErrPasswordTooLong)
             /\ last.pw = EmptyPassword
        /\ Len(last.arg) = 128 => ~ErrorsIs(last.err, ErrPasswordTooLong)

\* A plaintext of more than 128 code points with a non-printable character
\* and a repeating run was rejected as too long.
C3_Witness ==
    /\ last.op = "NewPassword"
    /\ Len(last.arg) > 128
    /\ HasNonPrintable(last.arg) /\ HasRepeatingRun(last.arg)
    /\ last.err = ErrPasswordTooLong

\* C4: ValidatePassword of a plaintext of 8 to 128 code points with a
\* non-printable code point fails with ErrInvalidPasswordChars, never with
\* ErrPasswordTooWeak or ErrPasswordCommon.
C4_InvalidChars ==
    (/\ last.op = "ValidatePassword"
     /\ Len(last.arg) >= 8 /\ Len(last.arg) <= 128
     /\ HasNonPrintable(last.arg)) =>
        /\ last.err = ErrInvalidPasswordChars
        /\ ~ErrorsIs(last.err, ErrPasswordTooWeak)
        /\ ~ErrorsIs(last.err, ErrPasswordCommon)

\* A plaintext with a non-printable character that also lacks a character
\* class and has a repeating run was rejected for its characters.
C4_Witness ==
    /\ last.op = "ValidatePassword"
    /\ Len(last.arg) >= 8 /\ Len(last.arg) <= 128
    /\ HasNonPrintable(last.arg)
    /\ LacksClass(last.arg) /\ HasRepeatingRun(last.arg)
    /\ last.err = ErrInvalidPasswordChars

\* C5: ValidatePassword of a printable plaintext of 8 to 128 code points
\* that lacks a character class fails with ErrPasswordTooWeak, not with
\* ErrPasswordCommon, also when it is on the deny-list or has a run.
C5_TooWeak ==
    (/\ last.op = "ValidatePassword"
     /\ Len(last.arg) >= 8 /\ Len(last.arg) <= 128
     /\ ~HasNonPrintable(last.arg)
     /\ LacksClass(last.arg)) =>
        /\ last.err = ErrPasswordTooWeak
        /\ ~ErrorsIs(last.err, ErrPasswordCommon)

\* A plaintext that lacks a class and has a sequential run ("12345678",
\* "Abc12345") was rejected as too weak.
C5_Witness ==
    /\ last.op = "ValidatePassword"
    /\ Len(last.arg) >= 8 /\ Len(last.arg) <= 128
    /\ ~HasNonPrintable(last.arg)
    /\ LacksClass(last.arg) /\ HasSequentialRun(last.arg)
    /\ last.err = ErrPasswordTooWeak

\* C6: ValidatePassword of a plaintext that passes the length, printable and
\* complexity rules and is not on the deny-list fails with ErrPasswordCommon
\* when a pattern detector fires, and that error is the value returned for a
\* deny-list match.
C6_PatternIsCommon ==
    (/\ last.op = "ValidatePassword"
     /\ PassesRules1To4(last.arg)
     /\ ~OnDenyList(last.arg)
     /\ (HasSequentialRun(last.arg) \/ HasRepeatingRun(last.arg))) =>
        /\ last.err = ErrPasswordCommon
        /\ \A c \in commonPasswords : validatePasswordStrength(c) = last.err

\* "Test123!!!!" (a repeating run and no sequential one) was rejected as
\* common.
C6_Witness ==
    /\ last.op = "ValidatePassword"
    /\ PassesRules1To4(last.arg)
    /\ HasRepeatingRun(last.arg) /\ ~HasSequentialRun(last.arg)
    /\ last.err = ErrPasswordCommon

\* The plaintext passes all six rules of the policy.
PassesPolicy(x) ==
    /\ PassesRules1To4(x)
    /\ ~OnDenyList(x)
    /\ ~HasSequentialRun(x)
    /\ ~HasRepeatingRun(x)

CalledHasher(calls) ==
    \E i \in 1..Len(calls) : calls[i] = "bcrypt.GenerateFromPassword"

\* C7: NewPassword calls the hasher only after ValidatePassword has
\* succeeded; when validation fails it returns ValidatePassword's error and
\* a Password with an empty hashedValue, and the hasher is not called.
C7_HashOnlyAfterValidation ==
    last.op = "NewPassword" =>
        /\ last.calls[1] = "ValidatePassword"
        /\ CalledHasher(last.calls) =>
             /\ PassesPolicy(last.arg)
             /\ last.calls = <<"ValidatePassword", "bcrypt.GenerateFromPassword">>
        /\ ~PassesPolicy(last.arg) =>
             /\ last.err # NilError
             /\ last.err = ValidatePassword(last.arg)
             /\ last.pw.hashedValue = << >>
             /\ ~CalledHasher(last.calls)

\* NewPassword returned a policy error for a plaintext short enough for the
\* primitive.
C7_Witness ==
    /\ last.op = "NewPassword"
    /\ ~PassesPolicy(last.arg)
    /\ Len(last.arg) >= 8
    /\ Len(StringBytes(last.arg)) <= 72
    /\ last.err = ErrPasswordCommon
    /\ last.pw = EmptyPassword

PolicyAndVerifyErrors ==
    { ErrPasswordTooShort, ErrPasswordTooLong, ErrInvalidPasswordChars,
      ErrPasswordTooWeak, ErrPasswordCommon, ErrPasswordVerifyFailed }

\* C8: when the primitive fails for a plaintext that passes the policy,
\* NewPassword returns an empty Password and an error whose cause is the
\* primitive's error and that errors.Is matches with none of the five policy
\* errors nor with ErrPasswordVerifyFailed.
C8_HashFailureWrapped ==
    (/\ last.op = "NewPassword"
     /\ PassesPolicy(last.arg)
     /\ GenerateFromPassword(StringBytes(last.arg), BcryptCost, 1).err # NilError) =>
        /\ last.pw = EmptyPassword
        /\ last.err # NilError
        /\ Unwrap(last.err) =
             GenerateFromPassword(StringBytes(last.arg), BcryptCost, 1).err
        /\ last.err[1].msg = "failed to hash password"
        /\ \A e \in PolicyAndVerifyErrors : ~ErrorsIs(last.err, e)

\* A plaintext within the policy's 128 code points was refused by the
\* primitive.
C8_Witness ==
    /\ last.op = "NewPassword"
    /\ PassesPolicy(last.arg)
    /\ Len(StringBytes(last.arg)) > 72
    /\ last.pw = EmptyPassword
    /\ ErrorsIs(last.err, bcryptErrPasswordTooLong)

\* C9: while the caller holds the Password built from plaintext x, Verify(x)
\* returns nil: on every call made, and in every state reached by any
\* sequence of Verify, Equals, HashedValue, String and MarshalJSON calls.
C9_VerifyOriginalSucceeds ==
    held =>
        /\ Verify(pw, plain) = NilError
        /\ (last.op = "Verify" /\ last.arg = plain) => last.err = NilError

\* Verify(x) returned nil as the third call made on the Password.
C9_Witness ==
    /\ held
    /\ ncalls >= 3
    /\ last.op = "Verify"
    /\ last.arg = plain
    /\ last.err = NilError

\* The key bcrypt derives from a password: its bytes followed by NUL, read
\* cyclically up to 72 bytes.  Two passwords with the same key.
SameBcryptKey(x, y) ==
    LET a == StringBytes(x) \o << 0 >>
        b == StringBytes(y) \o << 0 >>
    IN  \A i \in 0..71 : a[(i % Len(a)) + 1] = b[(i % Len(b)) + 1]

\* C10 as stated: every attempt different from the plaintext the Password
\* was built from fails with ErrPasswordVerifyFailed.
C10_OnlyExactPlaintext ==
    (held /\ last.op = "Verify" /\ last.arg # plain) =>
        last.err = ErrPasswordVerifyFailed

\* C10 as amended: an attempt whose bcrypt key differs from the key of the
\* plaintext the Password was built from fails with ErrPasswordVerifyFailed,
\* and Verify returns nil exactly for the attempts with that key.
C10_OnlySameKey ==
    (held /\ last.op = "Verify") =>
        /\ ~SameBcryptKey(last.arg, plain) => last.err = ErrPasswordVerifyFailed
        /\ last.err = NilError <=> SameBcryptKey(last.arg, plain)
        /\ (last.arg # plain /\ Len(StringBytes(last.arg)) <= 72
              /\ ~(\E i \in 1..Len(last.arg) : last.arg[i] = 0)) =>
             last.err = ErrPasswordVerifyFailed

\* An attempt that differs from the plaintext in its last character only
\* failed with ErrPasswordVerifyFailed.
C10_Witness ==
    /\ held
    /\ last.op = "Verify"
    /\ last.arg # plain
    /\ Len(last.arg) = Len(plain) + 1
    /\ SubSeq(last.arg, 1, Len(plain)) = plain
    /\ last.err = ErrPasswordVerifyFailed

(***************************************************************************)
(* Claims about Passwords that were stored and read back.                  *)
(***************************************************************************)
\* p is a Password NewPassword built, in either variable.
BuiltByNewPassword(p) ==
    \/ held /\ p = pw
    \/ from2 = "NewPassword" /\ p = pw2

\* p carries the hashedValue of a Password NewPassword built and the caller
\* still holds, however p itself was obtained.
CarriesBuiltHash(p) ==
    \/ held /\ p.hashedValue = pw.hashedValue
    \/ from2 = "NewPassword" /\ p.hashedValue = pw2.hashedValue

\* C11 as stated: on every Password, however it was obtained, Verify("")
\* fails, and with ErrPasswordVerifyFailed.
C11_EmptyAttemptAlwaysVerifyFailed ==
    (last.op = "Verify" /\ last.arg = << >>) => last.err = ErrPasswordVerifyFailed

\* C11 as amended: on a Password that carries a hashedValue NewPassword
\* produced, whether it came from NewPassword, ReconstitutePassword or a
\* deserializer, Verify("") fails with ErrPasswordVerifyFailed itself.
C11_EmptyAttemptOnBuiltHash ==
    (last.op = "Verify" /\ last.arg = << >> /\ CarriesBuiltHash(last.self)) =>
        last.err = ErrPasswordVerifyFailed

\* Verify("") on a Password that NewPasswordFromJSON read back from the
\* serialized form of a built one failed with ErrPasswordVerifyFailed.
C11_Witness ==
    /\ held
    /\ from2 = "NewPasswordFromJSON"
    /\ pw2 = pw
    /\ last.op = "Verify"
    /\ last.self = pw2
    /\ last.arg = << >>
    /\ last.err = ErrPasswordVerifyFailed

\* A string with the form of a bcrypt hash: long enough, "$", a major
\* version up to 2, an optional minor version, "$", a cost between 4 and 31
\* in two characters, "$", and a salt in the radix-64 alphabet.
WellFormedHash(h) ==
    /\ Len(h) >= MinHashSize
    /\ h[1] = 36
    /\ h[2] <= 50
    /\ LET n == IF h[3] = 36 THEN 3 ELSE 4
           c == AtoiCost(h[n + 1], h[n + 2])
       IN  /\ c.ok
           /\ c.cost \in 4..31
           /\ h[n + 4] >= HashSymbolBase

\* The errors bcrypt.CompareHashAndPassword returns for a string that has
\* not the form of a hash.
MalformedHashErrors ==
    { bcryptErrHashTooShort, bcryptInvalidHashPrefixError, bcryptHashVersionTooNewError,
      strconvErrSyntax, bcryptInvalidCostError, base64CorruptInputError }

\* C12: Verify on a Password whose hashedValue is no well-formed hash returns,
\* for every attempt, an error that is not ErrPasswordVerifyFailed under
\* errors.Is and that wraps the error of the primitive; Verify returns
\* ErrPasswordVerifyFailed only for a well-formed hash the attempt does not
\* match.
C12_MalformedHashDistinct ==
    last.op = "Verify" =>
        LET h == last.self.hashedValue
            cause == CompareHashAndPassword(h, StringBytes(last.arg))
        IN  /\ ~WellFormedHash(h) =>
                 /\ last.err # NilError
                 /\ ~ErrorsIs(last.err, ErrPasswordVerifyFailed)
                 /\ last.err[1].msg = "failed to verify password"
                 /\ Unwrap(last.err) = cause
                 /\ cause \in MalformedHashErrors
                 /\ ErrorsIs(last.err, cause)
            /\ ErrorsIs(last.err, ErrPasswordVerifyFailed) =>
                 /\ WellFormedHash(h)
                 /\ last.err = ErrPasswordVerifyFailed
                 /\ cause = bcryptErrMismatchedHashAndPassword

\* Verify on a Password reconstituted from "not-a-hash" returned an error
\* that wraps bcrypt.ErrHashTooShort.
C12_Witness ==
    /\ from2 = "ReconstitutePassword"
    /\ pw2.hashedValue = NotAHash
    /\ last.op = "Verify"
    /\ last.self = pw2
    /\ Len(last.err) = 2
    /\ last.err[2].ptr = "bcrypt.ErrHashTooShort"
    /\ ~ErrorsIs(last.err, ErrPasswordVerifyFailed)

\* C13: two Passwords built by two calls of NewPassword with the same
\* plaintext have different hashedValues, and Verify of that plaintext
\* returns nil on both.
C13_SamePlaintextDifferentHashes ==
    (held /\ from2 = "NewPassword" /\ plain2 = plain) =>
        /\ HashedValue(pw) # HashedValue(pw2)
        /\ Verify(pw, plain) = NilError
        /\ Verify(pw2, plain) = NilError
        /\ (last.op = "Verify" /\ last.arg = plain) => last.err = NilError

\* Of two Passwords built from the same plaintext the second verified it.
C13_Witness ==
    /\ held
    /\ from2 = "NewPassword"
    /\ plain2 = plain
    /\ last.op = "Verify"
    /\ last.self = pw2
    /\ last.arg = plain
    /\ last.err = NilError
    /\ pw2.hashedValue # pw.hashedValue

\* The Passwords the caller has at hand: its two variables, the one the last
\* call returned, and Password{}.
PasswordsAtHand == { pw, pw2, last.pw, EmptyPassword }

\* C14: p.Equals(q) is true exactly when the two hashedValues are the same
\* string, so Equals is reflexive, symmetric and transitive; two Passwords
\* built by NewPassword from the same plaintext are not equal.
C14_EqualsIsHashIdentity ==
    /\ \A p \in PasswordsAtHand :
           /\ Equals(p, p)
           /\ \A q \in PasswordsAtHand :
                  /\ Equals(p, q) <=> HashedValue(p) = HashedValue(q)
                  /\ Equals(p, q) => Equals(q, p)
                  /\ \A r \in PasswordsAtHand :
                         (Equals(p, q) /\ Equals(q, r)) => Equals(p, r)
    /\ last.op = "Equals" => (last.ok <=> last.self.hashedValue = last.arg)
    /\ (held /\ from2 = "NewPassword" /\ plain2 = plain) =>
           /\ ~Equals(pw, pw2)
           /\ ~Equals(pw2, pw)
           /\ (last.op = "Equals" /\ last.self = pw2 /\ last.arg = pw.hashedValue)
                 => ~last.ok

\* Equals returned false for two Passwords built from the same plaintext.
C14_Witness ==
    /\ held
    /\ from2 = "NewPassword"
    /\ plain2 = plain
    /\ last.op = "Equals"
    /\ last.self = pw2
    /\ last.arg = pw.hashedValue
    /\ ~last.ok

\* C15: ReconstitutePassword(h) validates nothing and hashes nothing: for
\* every string h, well-formed hash or not, it returns a Password whose
\* HashedValue() is h.  Reconstituted from the HashedValue() of a Password p
\* built from x, the Password equals p and verifies x.
C15_ReconstituteKeepsHash ==
    /\ last.op = "ReconstitutePassword" =>
           /\ HashedValue(last.pw) = last.arg
           /\ pw2 = last.pw
           /\ last.err = NilError
           /\ last.calls = << >>
           /\ (held /\ last.arg = HashedValue(pw)) =>
                  /\ Equals(pw, last.pw)
                  /\ Equals(last.pw, pw)
                  /\ Verify(last.pw, plain) = NilError
    /\ (held /\ from2 = "ReconstitutePassword" /\ HashedValue(pw2) = HashedValue(pw)) =>
           /\ (last.op = "Verify" /\ last.self = pw2 /\ last.arg = plain) =>
                  last.err = NilError
           /\ (last.op = "Equals" /\ last.self = pw2 /\ last.arg = HashedValue(pw)) =>
                  last.ok
           /\ (last.op = "HashedValue" /\ last.self = pw2) =>
                  last.str = HashedValue(pw)

\* The Password reconstituted from the hashedValue of a built one verified
\* the plaintext that one was built from.
C15_Witness ==
    /\ held
    /\ from2 = "ReconstitutePassword"
    /\ pw2 = pw
    /\ last.op = "Verify"
    /\ last.self = pw2
    /\ last.arg = plain
    /\ last.err = NilError

\* s holds no byte outside well-formed UTF-8.
IsValidUTF8(s) == \A i \in 1..Len(s) : s[i] >= 0

\* The Passwords the caller obtained from a constructor or a deserializer.
PasswordsObtained ==
    (IF held THEN {pw} ELSE {}) \cup (IF from2 # "none" THEN {pw2} ELSE {})

\* Both deserializers, applied to the serialized form of p, succeed and give
\* a Password with the hashedValue of p that equals p and answers the
\* attempts as p does.
RoundTrips(p) ==
    LET m == MarshalJSON(p)
        a == NewPasswordFromJSON(m.json)
        b == UnmarshalJSON(EmptyPassword, m.json)
    IN  /\ m.err = NilError
        /\ a.err = NilError
        /\ b.err = NilError
        /\ HashedValue(a.pw) = HashedValue(p)
        /\ HashedValue(b.pw) = HashedValue(p)
        /\ Equals(a.pw, p) /\ Equals(p, a.pw)
        /\ Equals(b.pw, p) /\ Equals(p, b.pw)
        /\ \A y \in {<< >>, plain} :
               /\ Verify(a.pw, y) = Verify(p, y)
               /\ Verify(b.pw, y) = Verify(p, y)

\* C16 as stated: every Password, whatever its hashedValue, comes back from
\* its serialized form.
C16_EveryPasswordRoundTrips ==
    \A p \in PasswordsObtained : RoundTrips(p)

\* C16 as amended: a Password whose hashedValue is not empty and is valid
\* UTF-8 comes back from its serialized form through both deserializers,
\* with the same hashedValue, equal to the original and answering Verify as
\* it does.  The serialized form of a Password with the empty hashedValue is
\* rejected by both, and bytes that are not UTF-8 come back as U+FFFD.
C16_RoundTripOfStoredHash ==
    /\ \A p \in PasswordsObtained :
           /\ (p.hashedValue # << >> /\ IsValidUTF8(p.hashedValue)) => RoundTrips(p)
           /\ p.hashedValue = << >> =>
                  /\ NewPasswordFromJSON(MarshalJSON(p).json).err # NilError
                  /\ UnmarshalJSON(p, MarshalJSON(p).json).err # NilError
           /\ ~IsValidUTF8(p.hashedValue) =>
                  /\ NewPasswordFromJSON(MarshalJSON(p).json).err = NilError
                  /\ NewPasswordFromJSON(MarshalJSON(p).json).pw.hashedValue
                         = CoerceUTF8(p.hashedValue)
                  /\ ~Equals(NewPasswordFromJSON(MarshalJSON(p).json).pw, p)
    /\ (held /\ last.op \in {"NewPasswordFromJSON", "UnmarshalJSON"}
             /\ last.json = MarshalJSON(pw).json) =>
           /\ last.err = NilError
           /\ HashedValue(last.pw) = HashedValue(pw)
           /\ Equals(pw, last.pw)
           /\ pw2 = last.pw
           /\ Verify(pw2, plain) = NilError

\* UnmarshalJSON filled an empty Password variable from the serialized form
\* of a built Password, and the two are equal.
C16_Witness ==
    /\ held
    /\ last.op = "UnmarshalJSON"
    /\ last.self = EmptyPassword
    /\ last.json = MarshalJSON(pw).json
    /\ last.err = NilError
    /\ from2 = "UnmarshalJSON"
    /\ pw2 = pw

\* The members of a JSON object that address the field hashedValue, as
\* encoding/json matches keys: by name, without regard to case.
FieldMembers(data) ==
    { i \in 1..Len(data.members) : EqualFold(data.members[i].name, hashedValueKey) }

\* The text can be decoded into the serialized form: it is JSON, it is an
\* object or null, and no member for hashedValue has a value other than a
\* string or null.
Decodable(data) ==
    /\ data.kind \in {"object", "null"}
    /\ \A i \in FieldMembers(data) : data.members[i].type \in {"string", "null"}

\* The string the text gives for hashedValue: that of the last member for it
\* with a string value, invalid UTF-8 replaced; empty if there is none.
FieldValue(data) ==
    LET strs == { i \in FieldMembers(data) : data.members[i].type = "string" }
    IN  IF strs = {} THEN << >>
        ELSE CoerceUTF8(data.members[CHOOSE i \in strs : \A k \in strs : k <= i].value)

\* C17: NewPasswordFromJSON and UnmarshalJSON fail exactly when the input
\* cannot be decoded or gives no or an empty hashedValue; the error is none
\* of the policy errors and not ErrPasswordVerifyFailed; every other input is
\* accepted with its hashedValue as it is, whether or not that is a hash or
\* would pass the policy, and nothing is validated or hashed.
C17_DeserializationFailsIffNoHash ==
    last.op \in {"NewPasswordFromJSON", "UnmarshalJSON"} =>
        /\ last.err # NilError <=>
               (~Decodable(last.json) \/ FieldValue(last.json) = << >>)
        /\ last.err # NilError =>
               /\ \A e \in PolicyAndVerifyErrors :
                      last.err # e /\ ~ErrorsIs(last.err, e)
               /\ ~Decodable(last.json) <=> Len(last.err) > 1
        /\ last.err = NilError =>
               /\ HashedValue(last.pw) = FieldValue(last.json)
               /\ pw2 = last.pw
               /\ last.calls = << >>

\* NewPasswordFromJSON rejected {"invalid": "json"} for its missing
\* hashedValue.
C17_Witness ==
    /\ last.op = "NewPasswordFromJSON"
    /\ last.json = JSONObject(<< JSONString(InvalidKey, JsonWord) >>)
    /\ last.err # NilError
    /\ last.err[1].msg = "failed to build password from json: missing or empty hashedValue"

(***************************************************************************)
(* Claims about what a Password shows of its plaintext.                    *)
(***************************************************************************)
\* strings.Contains(s, sub)
Contains(s, sub) ==
    \E i \in 0..(Len(s) - Len(sub)) : \A k \in 1..Len(sub) : s[i + k] = sub[k]

\* What p shows outside: HashedValue(), String(), and the strings of its
\* serialized form, names and values.
Outputs(p) ==
    { HashedValue(p), String(p) }
        \cup { MarshalJSON(p).json.members[i].value :
                   i \in 1..Len(MarshalJSON(p).json.members) }
        \cup { MarshalJSON(p).json.members[i].name :
                   i \in 1..Len(MarshalJSON(p).json.members) }

\* C18: a Password built by NewPassword(x) has the single field hashedValue,
\* which holds what the hasher returned for x; x is in no field, and neither
\* HashedValue() nor String() nor the serialized form is x or contains x; the
\* serialized form has the single member hashedValue.
C18_OnlyTheHashIsHeld ==
    held =>
        /\ DOMAIN pw = {"hashedValue"}
        /\ \E salt \in 1..nextSalt :
               pw.hashedValue
                   = GenerateFromPassword(StringBytes(plain), BcryptCost, salt).hash
        /\ \A out \in Outputs(pw) : out # plain /\ ~Contains(out, plain)
        /\ LET m == MarshalJSON(pw).json
           IN  /\ m.kind = "object"
               /\ Len(m.members) = 1
               /\ m.members[1].name = hashedValueKey
               /\ m.members[1].value = pw.hashedValue
        /\ last.op \in {"HashedValue", "String"} =>
               last.str # plain /\ ~Contains(last.str, plain)
        /\ last.op = "MarshalJSON" =>
               /\ Len(last.json.members) = 1
               /\ last.json.members[1].name = hashedValueKey
               /\ ~Contains(last.json.members[1].value, plain)

\* MarshalJSON of a built Password returned the object whose only member is
\* hashedValue with the hash.
C18_Witness ==
    /\ held
    /\ last.op = "MarshalJSON"
    /\ Len(last.json.members) = 1
    /\ last.json.members[1].value = pw.hashedValue
    /\ ~Contains(last.json.members[1].value, plain)

\* The non-empty substrings of s.
Substrings(s) ==
    { SubSeq(s, i, j) : i \in 1..Len(s), j \in 1..Len(s) } \ { << >> }

\* C19 as stated: for a Password built from a policy-valid plaintext x,
\* String() contains no substring of x and no substring of HashedValue().
C19_NoSubstringInString ==
    held =>
        /\ \A sub \in Substrings(plain) : ~Contains(String(pw), sub)
        /\ \A sub \in Substrings(HashedValue(pw)) : ~Contains(String(pw), sub)

\* C19 as amended: for a Password built from a policy-valid plaintext x,
\* String() contains neither x nor HashedValue(); it is the same string for
\* every x and every hash.
C19_NeitherPlaintextNorHashInString ==
    held =>
        /\ ~Contains(String(pw), plain)
        /\ ~Contains(String(pw), HashedValue(pw))
        /\ String(pw) = String(EmptyPassword)
        /\ last.op = "String" =>
               /\ last.str = String(EmptyPassword)
               /\ ~Contains(last.str, plain)
               /\ ~Contains(last.str, HashedValue(pw))

\* String() was called on a Password whose plaintext has a character in
\* common with "[PROTECTED]", and returned neither the plaintext nor the hash.
C19_Witness ==
    /\ held
    /\ last.op = "String"
    /\ \E i \in 1..Len(plain) : Contains(last.str, << plain[i] >>)
    /\ ~Contains(last.str, plain)
    /\ ~Contains(last.str, HashedValue(pw))

\* "[PROTECTED]"
Protected == << 91, 80, 82, 79, 84, 69, 67, 84, 69, 68, 93 >>

\* C20: String() returns "[PROTECTED]" for every Password, however it was
\* obtained and whatever its hashedValue, the empty one included; Passwords
\* with different hashedValues have the same String().
C20_StringIsConstant ==
    /\ \A p \in PasswordsAtHand :
           /\ String(p) = Protected
           /\ \A q \in PasswordsAtHand : String(p) = String(q)
    /\ last.op = "String" => last.str = Protected

\* String() was called on a Password with the empty hashedValue while the
\* caller held a built one, and returned what it returns for that one.
C20_Witness ==
    /\ held
    /\ pw2.hashedValue = << >>
    /\ pw.hashedValue # pw2.hashedValue
    /\ last.op = "String"
    /\ last.self = pw2
    /\ last.str = Protected
    /\ last.str = String(pw)

(***************************************************************************)
(* Claims about what the operations change.                                *)
(***************************************************************************)
\* The methods of Password.
Methods == { "Verify", "Equals", "HashedValue", "String", "MarshalJSON", "UnmarshalJSON" }

\* This step calls a method on the second Password, which the caller had
\* obtained before.
MethodCallOnObtained ==
    /\ last.op = "none"
    /\ last'.op \in Methods
    /\ from2 # "none"
    /\ last'.self = pw2

\* C21 as stated: no method called on an existing Password, UnmarshalJSON
\* included, changes its hashedValue.
C21_NoMethodChangesHash ==
    [][MethodCallOnObtained => pw2'.hashedValue = pw2.hashedValue]_vars

\* C21 as amended: Verify, Equals, HashedValue, String and MarshalJSON leave
\* the hashedValue of the Password they are called on as it was, and
\* UnmarshalJSON does when it fails; UnmarshalJSON that succeeds puts the
\* hashedValue of its input in place of the one the Password had.  No method
\* changes another Password.
C21_OnlyUnmarshalJSONChangesHash ==
    [][MethodCallOnObtained =>
           /\ pw' = pw
           /\ IF last'.op = "UnmarshalJSON" /\ last'.err = NilError
              THEN pw2'.hashedValue = FieldValue(last'.json)
              ELSE pw2' = pw2]_vars

\* UnmarshalJSON succeeded on a Password that had a hashedValue and gave it
\* another one.
C21_Witness ==
    /\ last.op = "UnmarshalJSON"
    /\ last.self.hashedValue # << >>
    /\ last.err = NilError
    /\ pw2.hashedValue = FieldValue(last.json)
    /\ pw2.hashedValue # last.self.hashedValue

(***************************************************************************)
(* Claims about calls that run side by side.                               *)
(***************************************************************************)
\* C22: whatever NewPassword and Verify calls run side by side, on the same
\* Password or on different ones, and however their statements interleave,
\* each call returns what it returns when it runs alone: NewPassword(x) the
\* result for x and the salt it drew, p.Verify(y) the result for p and y.
\* A statement of one call changes nothing another call works on.
C22_ConcurrentCallsAsAlone ==
    /\ [](\A t \in 1..Goroutines :
              inv[t].pc = "done" =>
                  IF inv[t].op = "NewPassword"
                  THEN /\ inv[t].result.err = NewPassword(inv[t].arg, inv[t].salt).err
                       /\ inv[t].result.pw = NewPassword(inv[t].arg, inv[t].salt).pw
                  ELSE inv[t].result.err = Verify(inv[t].self, inv[t].arg))
    /\ [][\A t \in 1..Goroutines :
              inv'[t] # inv[t] =>
                  /\ \A u \in 1..Goroutines \ {t} : inv'[u] = inv[u]
                  /\ inv'[t].arg = inv[t].arg \/ inv[t].pc = "idle" \/ inv'[t].pc = "idle"
                  /\ UNCHANGED << pw, pw2, nextSalt, chain >>]_vars

\* One goroutine has built a Password while another, which called Verify on
\* a Password built from the same plaintext, is between two statements.
C22_Witness ==
    \E t, u \in 1..Goroutines :
        /\ inv[t].op = "NewPassword"
        /\ inv[t].pc = "done"
        /\ inv[t].result.err = NilError
        /\ inv[u].op = "Verify"
        /\ inv[u].pc = "return"
        /\ inv[u].arg = inv[t].arg

(***************************************************************************)
(* Claims about the errors.                                                *)
(***************************************************************************)
\* The error that stands for a rule of the policy.
ErrorOfRule(rule) ==
    CASE rule = "floor" -> ErrPasswordTooShort
      [] rule = "ceiling" -> ErrPasswordTooLong
      [] rule = "printable" -> ErrInvalidPasswordChars
      [] rule = "complexity" -> ErrPasswordTooWeak
      [] rule = "denylist" -> ErrPasswordCommon
      [] rule = "patterns" -> ErrPasswordCommon

PolicyErrors ==
    { ErrPasswordTooShort, ErrPasswordTooLong, ErrInvalidPasswordChars,
      ErrPasswordTooWeak, ErrPasswordCommon }

\* C23: the error ValidatePassword returns for a plaintext that fails the
\* policy is determined by the rule that failed alone: it is one of the five
\* sentinels, the one of that rule, a single error with its fixed message and
\* no cause; any other plaintext that fails at the same rule gets the very
\* same error.  NewPassword hands that error on unchanged.
C23_PolicyErrorDependsOnRuleOnly ==
    /\ (last.op = "ValidatePassword" /\ last.err # NilError) =>
           /\ last.err \in PolicyErrors
           /\ last.err = ErrorOfRule(last.rules[Len(last.rules)])
           /\ Len(last.err) = 1
           /\ \A y \in Literals :
                  (ValidatePasswordRun(y).err # NilError
                       /\ ValidatePasswordRun(y).rules = last.rules) =>
                      ValidatePasswordRun(y).err = last.err
    /\ (last.op = "NewPassword" /\ last.calls = <<"ValidatePassword">>) =>
           /\ last.err \in PolicyErrors
           /\ last.err = ValidatePassword(last.arg)

\* ValidatePassword rejected a plaintext as too short that is not the only
\* plaintext of the tests rejected at that rule.
C23_Witness ==
    /\ last.op = "ValidatePassword"
    /\ last.err = ErrPasswordTooShort
    /\ \E y \in Literals :
           /\ y # last.arg
           /\ ValidatePasswordRun(y).rules = last.rules
           /\ ValidatePasswordRun(y).err = last.err

(***************************************************************************)
(* C24: for every error built by NewErrorWithWrap, repeatedly, over a base *)
(* error, errors.Is on the outermost error finds the base error and every  *)
(* wrapper of the chain and no error that is not of the chain, Unwrap      *)
(* gives the error that was wrapped directly (nil for an error built by    *)
(* NewError), and Error() is the messages of the chain, outermost first,   *)
(* joined by ": ".                                                         *)
(***************************************************************************)
RECURSIVE JoinedFrom(_, _)
JoinedFrom(err, i) ==
    IF i = Len(err) THEN err[i].msg
    ELSE err[i].msg \o ": " \o JoinedFrom(err, i + 1)

C24_ChainIsFoundUnwrappedAndJoined ==
    /\ chain # NilError =>
        /\ \A target \in ErrorTargets(chain) :
               ErrorsIs(chain, target) <=> target \in ChainErrors(chain)
        /\ Error(chain) = JoinedFrom(chain, 1)
    /\ last.op = "NewErrorWithWrap" =>
        /\ Unwrap(chain) = last.err
        /\ chain[1].msg = last.text
        /\ Error(chain) = IF last.err = NilError THEN last.text
                          ELSE last.text \o ": " \o Error(last.err)
    /\ last.op = "NewError" => Unwrap(chain) = NilError /\ Error(chain) = last.text
    /\ last.op = "Error" => last.text = JoinedFrom(chain, 1)
    /\ last.op = "Unwrap" => last.err = Tail(chain)
    /\ last.op = "errors.Is" => (last.ok <=> last.err \in ChainErrors(chain))

\* errors.Is has found the base error, made by errors.New, under two wrappers.
C24_Witness ==
    /\ Len(chain) = 3
    /\ chain[3].ptr = "errors.New#1"
    /\ last.op = "errors.Is"
    /\ last.err = << chain[3] >>
    /\ last.ok

(***************************************************************************)
(* C25: isSequentialPattern(s) is true exactly when s has a window of 4    *)
(* consecutive code points that are all ASCII digits, or all letters a-z   *)
(* once lowered, and whose neighbours differ by +1 throughout or by -1     *)
(* throughout.  So "c123", "8901", "yzab", "1232" and "2468" are not       *)
(* flagged, "aBcD" is, and fewer than 4 code points give false.            *)
(***************************************************************************)
NeverSequential ==
    { <<99, 49, 50, 51>>, <<56, 57, 48, 49>>, <<121, 122, 97, 98>>,
      <<49, 50, 51, 50>>, <<50, 52, 54, 56>> }

C25_SequentialIffUnitStepWindow ==
    last.op = "isSequentialPattern" =>
        /\ last.ok <=> HasSequentialRun(last.arg)
        /\ Len(last.arg) < 4 => ~last.ok
        /\ last.arg \in NeverSequential => ~last.ok
        /\ last.arg = <<97, 66, 99, 68>> => last.ok

\* "aBcD", a run in mixed case, has been flagged.
C25_Witness ==
    /\ last.op = "isSequentialPattern"
    /\ last.arg = <<97, 66, 99, 68>>
    /\ last.ok

(***************************************************************************)
(* C26: isRepeatingPattern(s) is true exactly when s has 4 or more         *)
(* consecutive identical code points: case matters ("aAaA" is not flagged, *)
(* "Aaaaa" is), code points are compared and not bytes, a run starts anew  *)
(* at every change of character, and fewer than 4 code points give false.  *)
(***************************************************************************)
C26_RepeatingIffRunOfFour ==
    last.op = "isRepeatingPattern" =>
        /\ last.ok <=> HasRepeatingRun(last.arg)
        /\ Len(last.arg) < 4 => ~last.ok
        /\ last.arg = <<97, 65, 97, 65>> => ~last.ok
        /\ last.arg = <<65, 97, 97, 97, 97>> => last.ok
        /\ last.arg = <<233, 233, 233, 233>> => last.ok
        /\ last.arg = <<97, 97, 97, 98, 97, 97, 97>> => ~last.ok

\* "Aaaaa" has been flagged.
C26_Witness ==
    /\ last.op = "isRepeatingPattern"
    /\ last.arg = <<65, 97, 97, 97, 97>>
    /\ last.ok

(***************************************************************************)
(* C27: the deny-list never decides.  A plaintext whose lower-case form is *)
(* an entry of the list has no punctuation or symbol, or fewer than 8 code *)
(* points, and is rejected before the list is looked at; ValidatePassword  *)
(* returns ErrPasswordCommon exactly when rules 1-4 pass and a pattern     *)
(* detector fires; without the list it returns the same for every input.   *)
(***************************************************************************)
HasNoSpecial(x) ==
    ~(\E i \in 1..Len(x) : IsPunct(CodePoints(x)[i]) \/ IsSymbol(CodePoints(x)[i]))

\* ValidatePassword with the loop over commonPasswords taken out.
ValidatePasswordWithoutDenyList(x) ==
    IF RuneCountInString(x) < MinPasswordLength THEN ErrPasswordTooShort
    ELSE IF RuneCountInString(x) > MaxPasswordLength THEN ErrPasswordTooLong
    ELSE IF HasNonPrintableRune(x) THEN ErrInvalidPasswordChars
    ELSE IF validatePasswordComplexity(x) # NilError THEN validatePasswordComplexity(x)
    ELSE IF isSequentialPattern(x) \/ isRepeatingPattern(x) THEN ErrPasswordCommon
    ELSE NilError

C27_DenyListNeverDecides ==
    last.op = "ValidatePassword" =>
        /\ OnDenyList(last.arg) =>
               /\ TooFewRunes(last.arg) \/ HasNoSpecial(last.arg)
               /\ last.err \in { ErrPasswordTooShort, ErrPasswordTooWeak }
               /\ \A i \in 1..Len(last.rules) : last.rules[i] # "denylist"
        /\ last.err = ErrPasswordCommon <=>
               /\ PassesRules1To4(last.arg)
               /\ HasSequentialRun(last.arg) \/ HasRepeatingRun(last.arg)
        /\ last.err = ValidatePasswordWithoutDenyList(last.arg)

\* 'Password123', long enough and on the list once lowered, was rejected as
\* too weak.
C27_Witness ==
    /\ last.op = "ValidatePassword"
    /\ OnDenyList(last.arg)
    /\ ~TooFewRunes(last.arg)
    /\ last.arg # ToLower(last.arg)
    /\ last.err = ErrPasswordTooWeak

(***************************************************************************)
(* C28: passing the policy does not guarantee construction.  The ceiling   *)
(* of the policy, 128 code points, is above the 72 bytes bcrypt takes: a   *)
(* plaintext that ValidatePassword accepts and whose UTF-8 encoding is     *)
(* longer than 72 bytes makes NewPassword fail with the wrapped hashing    *)
(* error, not with ErrPasswordTooLong; NewPassword succeeds exactly when   *)
(* ValidatePassword succeeds and the plaintext has at most 72 bytes.       *)
(***************************************************************************)
C28_ConstructionNeedsAtMost72Bytes ==
    /\ MaxPasswordLength > BcryptMaxPasswordBytes
    /\ last.op = "NewPassword" =>
        /\ last.err = NilError <=>
               /\ PassesPolicy(last.arg)
               /\ Len(StringBytes(last.arg)) <= 72
        /\ (PassesPolicy(last.arg) /\ Len(StringBytes(last.arg)) > 72) =>
               /\ last.pw = EmptyPassword
               /\ last.err # NilError
               /\ last.err[1].msg = "failed to hash password"
               /\ Unwrap(last.err) = bcryptErrPasswordTooLong
               /\ ~ErrorsIs(last.err, ErrPasswordTooLong)

\* A plaintext of fewer than 72 code points and more than 72 bytes has
\* passed the policy and NewPassword has failed.
C28_Witness ==
    /\ last.op = "NewPassword"
    /\ PassesPolicy(last.arg)
    /\ Len(last.arg) < 72
    /\ Len(StringBytes(last.arg)) > 72
    /\ last.err # NilError
    /\ held = FALSE

(***************************************************************************)
(* C29: when UnmarshalJSON fails, because the input cannot be parsed or    *)
(* the hashedValue field is absent or empty, the hashedValue of the        *)
(* receiver is what it was before the call; it is assigned only when the   *)
(* call succeeds.                                                          *)
(***************************************************************************)
C29_FailedUnmarshalLeavesReceiver ==
    last.op = "UnmarshalJSON" =>
        /\ (~Decodable(last.json) \/ FieldValue(last.json) = << >>) =>
               /\ last.err # NilError
               /\ pw2.hashedValue = last.self.hashedValue
               /\ last.pw = last.self
        /\ last.err # NilError => pw2 = last.self
        /\ pw2.hashedValue # last.self.hashedValue =>
               /\ last.err = NilError
               /\ pw2.hashedValue = FieldValue(last.json)

\* UnmarshalJSON has failed on a Password that holds a hash, for a text
\* without the field.
C29_Witness ==
    /\ last.op = "UnmarshalJSON"
    /\ last.err # NilError
    /\ Decodable(last.json)
    /\ FieldValue(last.json) = << >>
    /\ last.self.hashedValue # << >>
    /\ pw2 = last.self

(***************************************************************************)
(* C30: the two ways of reading a Password agree on every input:           *)
(* NewPasswordFromJSON(data) succeeds exactly when UnmarshalJSON(data) on  *)
(* a fresh Password does, and then both give the same hashedValue.         *)
(***************************************************************************)
EntryPointsAgree(data) ==
    LET built == NewPasswordFromJSON(data)
        read == UnmarshalJSON(EmptyPassword, data)
    IN  /\ built.err = NilError <=> read.err = NilError
        /\ built.err = NilError => built.pw.hashedValue = read.pw.hashedValue
        /\ built.err = NilError => built.pw.hashedValue # << >>

C30_EntryPointsAgree ==
    /\ last.op \in {"NewPasswordFromJSON", "UnmarshalJSON"} => EntryPointsAgree(last.json)
    /\ last.op = "NewPasswordFromJSON" =>
        /\ last.err = NilError <=> UnmarshalJSON(EmptyPassword, last.json).err = NilError
        /\ last.err = NilError =>
               last.pw.hashedValue = UnmarshalJSON(EmptyPassword, last.json).pw.hashedValue
    /\ (last.op = "UnmarshalJSON" /\ last.self = EmptyPassword) =>
        /\ last.err = NilError <=> NewPasswordFromJSON(last.json).err = NilError
        /\ last.err = NilError =>
               pw2.hashedValue = NewPasswordFromJSON(last.json).pw.hashedValue

\* UnmarshalJSON on a fresh Password has succeeded on a text with the key in
\* upper case, on which NewPasswordFromJSON succeeds too.
C30_Witness ==
    /\ last.op = "UnmarshalJSON"
    /\ last.self = EmptyPassword
    /\ last.err = NilError
    /\ NewPasswordFromJSON(last.json).err = NilError
    /\ pw2.hashedValue = NewPasswordFromJSON(last.json).pw.hashedValue
    /\ \E i \in FieldMembers(last.json) : last.json.members[i].name # hashedValueKey

====
